---- MODULE Spec2Model ----
(***************************************************************************)
(* Model of the in-memory StudentDatabase of src/lib/student-database.ts   *)
(* (the singleton studentDB) and of the operations its callers perform.    *)
(*                                                                         *)
(* Representation choices:                                                 *)
(*  - ids are Date.now().toString() or the sample ids "1" and "2"; a      *)
(*    decimal string of a natural number is modelled by that number        *)
(*    (toString is injective on naturals), so the id taken from the clock  *)
(*    is the clock value itself.                                           *)
(*  - the clock `now` counts abstract instants (milliseconds); it starts   *)
(*    above the sample ids and advances only between calls (Tick).         *)
(*  - toISOString().split("T")[0] truncates an instant to its calendar     *)
(*    day: DateOf(t) = t \div TicksPerDay.                                 *)
(*  - a JS object is a TLA+ function over the keys it carries; an optional *)
(*    field that is missing (or undefined) is a key outside the domain, so *)
(*    the object spread {...a, ...b} is  b @@ a.                           *)
(*  - the Map<string, Student> is the sequence of its entries in insertion *)
(*    order, as Map iteration exposes it.                                  *)
(*  - face descriptors are vectors over an integer grid (unit 0.1); a      *)
(*    Euclidean distance is the exact number sqrt(n), kept as [sq |-> n],  *)
(*    and Number.POSITIVE_INFINITY is a separate value.                    *)
(***************************************************************************)
EXTENDS Integers, Sequences, FiniteSets, TLC

VARIABLES students, attendance, now, call, ret, calls, snapshot,
          forms, pendingFaces, camera, enroll, detect, scan

\* the state of studentDB and of its observers
dbVars == <<students, attendance, now, call, ret, calls, snapshot>>

\* the state of the components and of the service calls in flight
uiVars == <<forms, pendingFaces, camera, enroll, detect, scan>>

vars == <<students, attendance, now, call, ret, calls, snapshot,
          forms, pendingFaces, camera, enroll, detect, scan>>

(***************************************************************************)
(* Bounds of the model                                                     *)
(***************************************************************************)
MaxNow == 4
MaxStudents == 3
MaxAttendance == 2
TicksPerDay == 2
MaxCalls == 2
MaxStatsCalls == 3
MaxFormCalls == 3
MaxStartCamera == 3
MaxEnrollCalls == 4
MaxBackendCalls == 3

(***************************************************************************)
(* Values                                                                  *)
(***************************************************************************)
Null == [null |-> TRUE]

Infinity == [inf |-> TRUE]

Sqrt(n) == [sq |-> n]

IsInf(x) == "inf" \in DOMAIN x

\* x < y on numbers that are sqrt(n) or +Infinity
Less(x, y) == ~IsInf(x) /\ (IsInf(y) \/ x.sq < y.sq)

DateOf(t) == t \div TicksPerDay

TimeOf(t) == t % TicksPerDay

(***************************************************************************)
(* Strings.  A string value of the model is a TLA+ string; CodeUnits gives *)
(* the sequence of its characters, on which toLowerCase and includes work. *)
(***************************************************************************)
CodeUnits(s) ==
    CASE
         s = "John Doe" -> <<"J", "o", "h", "n", " ", "D", "o", "e">>
      [] s = "Jane Smith" -> <<"J", "a", "n", "e", " ", "S", "m", "i", "t", "h">>
      [] s = "Ann" -> <<"A", "n", "n">>
      [] s = "CS001" -> <<"C", "S", "0", "0", "1">>
      [] s = "CS002" -> <<"C", "S", "0", "0", "2">>
      [] s = "CS003" -> <<"C", "S", "0", "0", "3">>
      [] s = "CS004" -> <<"C", "S", "0", "0", "4">>
      [] s = "john.doe@school.edu" -> <<"j", "o", "h", "n", ".", "d", "o", "e", "@", "s", "c", "h", "o", "o", "l", ".", "e", "d", "u">>
      [] s = "jane.smith@school.edu" -> <<"j", "a", "n", "e", ".", "s", "m", "i", "t", "h", "@", "s", "c", "h", "o", "o", "l", ".", "e", "d", "u">>
      [] s = "" -> <<>>
      [] s = "ann" -> <<"a", "n", "n">>
      [] s = "ANN" -> <<"A", "N", "N">>
      [] s = "cs00" -> <<"c", "s", "0", "0">>
      [] s = "Doe" -> <<"D", "o", "e">>
      [] s = "SCHOOL" -> <<"S", "C", "H", "O", "O", "L">>
      [] s = "xyz" -> <<"x", "y", "z">>
      [] s = "2" -> <<"2">>
      [] s = " " -> <<" ">>
      [] s = "10th" -> <<"1", "0", "t", "h">>
      [] s = "A" -> <<"A">>
      [] s = "type" -> <<"t", "y", "p", "e">>
      [] s = "student_id" -> <<"s", "t", "u", "d", "e", "n", "t", "_", "i", "d">>
      [] s = "student_name" -> <<"s", "t", "u", "d", "e", "n", "t", "_", "n", "a", "m", "e">>
      [] s = "timestamp" -> <<"t", "i", "m", "e", "s", "t", "a", "m", "p">>
      [] s = "rollNumber" -> <<"r", "o", "l", "l", "N", "u", "m", "b", "e", "r">>
      [] s = "attendance_session" -> <<"a", "t", "t", "e", "n", "d", "a", "n", "c", "e", "_", "s", "e", "s", "s", "i", "o", "n">>
      [] s = "1970-01-01T00:00:00.00" -> <<"1", "9", "7", "0", "-", "0", "1", "-", "0", "1", "T", "0", "0", ":", "0", "0", ":", "0", "0", ".", "0", "0">>

UpperCase == << "A", "B", "C", "D", "E", "F", "G", "H", "I", "J", "K", "L", "M",
                "N", "O", "P", "Q", "R", "S", "T", "U", "V", "W", "X", "Y", "Z" >>

LowerCase == << "a", "b", "c", "d", "e", "f", "g", "h", "i", "j", "k", "l", "m",
                "n", "o", "p", "q", "r", "s", "t", "u", "v", "w", "x", "y", "z" >>

\* String.prototype.toLowerCase on the characters of a string (ASCII)
toLowerCase(cs) ==
    [ i \in 1..Len(cs) |->
        IF \E k \in 1..Len(UpperCase) : UpperCase[k] = cs[i]
        THEN LowerCase[CHOOSE k \in 1..Len(UpperCase) : UpperCase[k] = cs[i]]
        ELSE cs[i] ]

\* String.prototype.includes
includes(cs, search) ==
    \E k \in 0..(Len(cs) - Len(search)) : SubSeq(cs, k + 1, k + Len(search)) = search

\* String.prototype.trim
RECURSIVE trimStart(_)
trimStart(cs) ==
    IF cs # << >> /\ Head(cs) \in { " ", "\t", "\n", "\r" } THEN trimStart(Tail(cs)) ELSE cs

RECURSIVE trimEnd(_)
trimEnd(cs) ==
    IF cs # << >> /\ cs[Len(cs)] \in { " ", "\t", "\n", "\r" }
    THEN trimEnd(SubSeq(cs, 1, Len(cs) - 1))
    ELSE cs

trim(cs) == trimEnd(trimStart(cs))

(***************************************************************************)
(* Map<string, Student> as its entry list in insertion order               *)
(***************************************************************************)
MapHas(m, k) == \E i \in 1..Len(m) : m[i].key = k

MapIndex(m, k) == CHOOSE i \in 1..Len(m) : m[i].key = k

MapGet(m, k) == m[MapIndex(m, k)].value

MapSet(m, k, v) ==
    IF MapHas(m, k)
    THEN [m EXCEPT ![MapIndex(m, k)] = [key |-> k, value |-> v]]
    ELSE Append(m, [key |-> k, value |-> v])

MapDelete(m, k) == SelectSeq(m, LAMBDA e : e.key # k)

MapValues(m) == [i \in 1..Len(m) |-> m[i].value]

MapKeys(m) == {m[i].key : i \in 1..Len(m)}

MapSize(m) == Len(m)

(***************************************************************************)
(* loadSampleData                                                          *)
(***************************************************************************)
sampleStudents(t) ==
    << [id |-> 1, name |-> "John Doe", rollNumber |-> "CS001",
        email |-> "john.doe@school.edu", class |-> "10th", section |-> "A",
        createdAt |-> t, updatedAt |-> t],
       [id |-> 2, name |-> "Jane Smith", rollNumber |-> "CS002",
        email |-> "jane.smith@school.edu", class |-> "10th", section |-> "A",
        createdAt |-> t, updatedAt |-> t] >>

RECURSIVE loadSampleData(_, _)
loadSampleData(m, s) ==
    IF s = <<>> THEN m
    ELSE loadSampleData(MapSet(m, Head(s).id, Head(s)), Tail(s))

\* the first instant of the clock: later than both sample ids
FirstInstant == Len(sampleStudents(0)) + 1

(***************************************************************************)
(* Components: their state after the first render                          *)
(***************************************************************************)
\* the registration forms mounted at the same time, sharing studentDB
Forms == {1, 2}

\* StudentRegistration after its first render, no submit under way; formData
\* and faceImage are read by each submit as its inputs
StudentRegistration == [isProcessing |-> FALSE, pc |-> "idle"]

\* the camera part of StudentRegistration: showCamera and stream (null or the
\* index of the held MediaStream) are component state, error is errors.camera,
\* video is the <video> element, streams are the MediaStreams getUserMedia
\* has handed out, pending the promises and events not yet settled
CameraInit ==
    [showCamera |-> FALSE,
     stream |-> Null,
     error |-> "",
     video |-> [srcObject |-> Null, onloadedmetadata |-> Null],
     streams |-> << >>,
     pending |-> << >>]

\* the enrollment component: enrollmentStatus and enrollmentMessage are
\* component state, pending the addStudent calls of the service in flight,
\* reply the body the backend sent to the call that settled last
EnrollInit ==
    [enrollmentStatus |-> "idle",
     enrollmentMessage |-> "",
     pending |-> << >>,
     reply |-> Null]

\* no call of the service in flight
Idle == [pc |-> "idle"]

Init ==
    /\ now = FirstInstant
    /\ students = loadSampleData(<<>>, sampleStudents(FirstInstant))
    /\ attendance = <<>>
    /\ call = [op |-> "constructor"]
    /\ ret = Null
    /\ calls = 0
    /\ snapshot = [taken |-> FALSE, items |-> <<>>]
    /\ forms = [f \in Forms |-> StudentRegistration]
    /\ pendingFaces = {}
    /\ camera = CameraInit
    /\ enroll = EnrollInit
    /\ detect = Idle
    /\ scan = Idle

(***************************************************************************)
(* Inputs                                                                  *)
(***************************************************************************)
\* ids handed to the methods: "0" (never issued), the sample ids and the
\* first id taken from the clock
Ids == 0..FirstInstant

RollNumbers == {"CS001", "CS003", "CS004"}

NewStudents ==
    { [name |-> "Ann", rollNumber |-> r, class |-> "10th", section |-> "A"] :
        r \in RollNumbers }

\* Partial<Student> values passed to updateStudent
Updates ==
    { [rollNumber |-> "CS001"], [id |-> 2], [name |-> "Ann"] }

\* records with an empty name or an empty roll number
BlankStudents ==
    { [name |-> "", rollNumber |-> "CS003", class |-> "10th", section |-> "A"],
      [name |-> "Ann", rollNumber |-> "", class |-> "10th", section |-> "A"] }

\* updates that empty a name or a roll number
BlankUpdates == { [name |-> ""], [rollNumber |-> ""] }

Descriptors == { <<3, 0>>, <<3, 4>>, <<3>> }

\* query vectors handed to findStudentByFaceDescriptor
Queries == { <<>>, <<3>>, <<0, 0>>, <<3, 0>>, <<3, 2>>, <<11, 0>> }

\* thresholds 0, 0.4, 0.6 (the default) and +Infinity
Thresholds == { Sqrt(0), Sqrt(16), Sqrt(36), Infinity }

\* (method, confidence?) argument pairs of markAttendance; confidence 0.9
Marks ==
    { [method |-> "face", confidence |-> [confidence |-> 9]],
      [method |-> "qr", confidence |-> <<>>],
      [method |-> "qr", confidence |-> [confidence |-> 9]] }

\* query strings handed to searchStudents
SearchQueries == { "", "ann", "ANN", "cs00", "Doe", "SCHOOL", "xyz", "2" }

\* student ids and names handed to generateStudentQR
QRIds == { << "1" >>, << "C", "S", "0", "0", "1" >>, << "\"", "}" >> }

QRNames == { << >>, << "A", "n", "n" >>, << "A", "\"", "b" >>, << "\\" >>,
             << "a", "\n", "b" >>, << "n", "u", "l", "l" >> }

\* texts that are not JSON
QRInvalidTexts ==
    { << >>,
      << "a", "b", "c" >>,
      << "{" >>,
      << "{", "\"", "t", "y", "p", "e", "\"", ":", "\"", "s" >>,
      << "{", "\"", "t", "y", "p", "e", "\"", ":", "\"", "\"", "}", "}" >>,
      << "0", "1" >> }

\* JSON texts whose type is neither "student_id" nor "attendance_session"
QRUnknownTypeTexts ==
    { << "n", "u", "l", "l" >>,
      << "5" >>,
      << "{", "}" >>,
      << "[", "1", ",", "t", "r", "u", "e", "]" >>,
      << "\"", "s", "t", "u", "d", "e", "n", "t", "_", "i", "d", "\"" >>,
      << "{", "\"", "t", "y", "p", "e", "\"", ":", "\"", "x", "\"", "}" >>,
      << "{", "\"", "t", "y", "p", "e", "\"", ":", "5", "}" >>,
      << "{", "\"", "t", "y", "p", "e", "\"", ":", "n", "u", "l", "l", "}" >>,
      << " ", "{", "\"", "i", "d", "\"", " ", ":", " ", "\"", "1", "\"", "}", "\n" >> }

\* JSON texts of a recognised type
QRKnownTypeTexts ==
    { << "{", "\"", "t", "y", "p", "e", "\"", ":", "\"" >>
          \o CodeUnits("attendance_session") \o << "\"", "}" >>,
      << "{", "\"", "t", "y", "p", "e", "\"", ":", "\"", "x", "\"", ",",
         "\"", "t", "y", "p", "e", "\"", ":", "\"" >>
          \o CodeUnits("student_id") \o << "\"", "}" >> }

\* the fields of a registration form when it is submitted: handleInputChange
\* sets any field to any value between two submits
FormData ==
    { [name |-> "Ann", rollNumber |-> r, class |-> "10th", section |-> "A"] :
        r \in { "CS001", "CS003", " " } }
    \cup { [name |-> "", rollNumber |-> "CS003", class |-> "10th", section |-> "A"] }

\* the face image of a form when it is submitted: set by handleFileUpload,
\* cleared by Remove Photo
FaceImages == { Null, [url |-> "data:image"] }

\* what extractFaceDescriptor resolves to
ExtractedDescriptors == { Null, <<3, 0>> }

\* how a pending promise or event of the camera settles: fulfilled, or
\* rejected with an error of the given name
CameraOutcomes ==
    { [ok |-> TRUE] }
    \cup { [ok |-> FALSE, name |-> n] :
             n \in { "NotAllowedError", "NotFoundError", "NotReadableError", "AbortError" } }

\* the enrollment fields when Enroll Student is clicked: setStudentId,
\* setStudentName and setCapturedImage set them between two clicks
EnrollFields ==
    { [studentId |-> "CS003", studentName |-> "Ann", capturedImage |-> [url |-> "data:image"]],
      [studentId |-> "", studentName |-> "Ann", capturedImage |-> [url |-> "data:image"]],
      [studentId |-> "CS003", studentName |-> "Ann", capturedImage |-> Null] }

\* what the backend sends: a result, a body without success, or JSON null
BackendReplies ==
    { [success |-> TRUE, message |-> "Student added"],
      [success |-> FALSE, message |-> "No face found"],
      [error |-> "Internal Server Error"],
      Null }

\* how fetch and response.json() end: [ok |-> FALSE] when the request
\* fails or the body is not JSON
FetchOutcomes == { [ok |-> FALSE] } \cup { [ok |-> TRUE, body |-> b] : b \in BackendReplies }

\* how drawImage and toDataURL on the video frame end
FrameOutcomes == { "drawn", "throws" }

\* how fetch ends: it rejects, or resolves to a response
Responses ==
    { [kind |-> "rejects"],
      [kind |-> "response", ok |-> FALSE, status |-> 500],
      [kind |-> "response", ok |-> FALSE, status |-> 404],
      [kind |-> "response", ok |-> TRUE, status |-> 200] }

\* what the QR backend sends as the body of a response
QRScanResults ==
    { [success |-> TRUE, qr_codes_found |-> 0, results |-> << >>],
      [success |-> FALSE, qr_codes_found |-> 0, results |-> << >>],
      [success |-> TRUE, qr_codes_found |-> 2,
       results |-> << [success |-> TRUE, type |-> "student_id", student_id |-> "CS001",
                       student_name |-> "Ann", message |-> "ok"],
                      [success |-> TRUE, type |-> "student_id", student_id |-> "CS003",
                       student_name |-> "Ann", message |-> "ok"] >>],
      [error |-> "Internal Server Error"],
      Null }

\* the entries the recognition backend reports
RecognizedFace ==
    [student_id |-> "1", student_name |-> "Ann", confidence |-> 90,
     face_location |-> [top |-> 10, right |-> 50, bottom |-> 40, left |-> 20],
     recognized |-> TRUE]

UnknownFace ==
    [student_id |-> Null, student_name |-> "Unknown", confidence |-> 0,
     face_location |-> [top |-> 0, right |-> 30, bottom |-> 30, left |-> 0],
     recognized |-> FALSE]

\* what the recognition backend sends as the body of a response
FaceRecognitionResults ==
    { [success |-> TRUE, faces_detected |-> 0, results |-> << >>],
      [success |-> TRUE, faces_detected |-> 2, results |-> << RecognizedFace, UnknownFace >>],
      [success |-> FALSE, faces_detected |-> 0, results |-> << >>],
      [success |-> FALSE, faces_detected |-> 1, results |-> << RecognizedFace >>],
      [success |-> TRUE],
      [error |-> "Internal Server Error"],
      Null }

\* how response.json() ends: [ok |-> FALSE] when the body is not JSON
Bodies(results) == { [ok |-> FALSE] } \cup { [ok |-> TRUE, value |-> b] : b \in results }

\* Math.random() > 0.5 of each mock face, for the numFaces faces
MockDraws == { << >>, << TRUE >>, << FALSE >>, << TRUE, FALSE >> }

\* generateRandomDescriptor
RandomDescriptors == { <<3, 0>> }

Dates == { <<>> } \cup { [date |-> DateOf(t)] : t \in FirstInstant..MaxNow }

(***************************************************************************)
(* Student management                                                      *)
(***************************************************************************)
addStudent(m, student, t) ==
    LET newStudent == [id |-> t, createdAt |-> t, updatedAt |-> t] @@ student
    IN  [students |-> MapSet(m, newStudent.id, newStudent), ret |-> newStudent]

\* variant: an unknown id gets a record made of the updates alone
updateStudent_Upsert(m, id, updates, t) ==
    LET student == IF MapHas(m, id) THEN MapGet(m, id) ELSE <<>>
        updatedStudent == [updatedAt |-> t] @@ updates @@ student
    IN  [students |-> MapSet(m, id, updatedStudent), ret |-> updatedStudent]

\* variant: the entry is removed and stored anew, which moves it to the end
updateStudent_Reinsert(m, id, updates, t) ==
    IF ~MapHas(m, id) THEN [students |-> m, ret |-> Null]
    ELSE LET student == MapGet(m, id)
             updatedStudent == [updatedAt |-> t] @@ updates @@ student
         IN  [students |-> MapSet(MapDelete(m, id), id, updatedStudent),
              ret |-> updatedStudent]

updateStudent(m, id, updates, t) ==
    IF ~MapHas(m, id) THEN [students |-> m, ret |-> Null]
    ELSE LET student == MapGet(m, id)
             updatedStudent == [updatedAt |-> t] @@ updates @@ student
         IN  [students |-> MapSet(m, id, updatedStudent), ret |-> updatedStudent]

\* variant: reports success whether or not the id was present
deleteStudent_AlwaysTrue(m, id) ==
    [students |-> MapDelete(m, id), ret |-> TRUE]

deleteStudent(m, id) ==
    [students |-> MapDelete(m, id), ret |-> MapHas(m, id)]

getStudent(m, id) == IF MapHas(m, id) THEN MapGet(m, id) ELSE Null

getStudentByRollNumber(m, rollNumber) ==
    LET hits == { i \in 1..Len(m) : m[i].value.rollNumber = rollNumber }
    IN  IF hits = {} THEN Null
        ELSE m[CHOOSE i \in hits : \A j \in hits : i <= j].value

getAllStudents(m) == MapValues(m)

\* variant: the query is compared as it was typed
searchStudents_QueryAsTyped(m, query) ==
    LET lowercaseQuery == CodeUnits(query)
        hit(student) ==
            \/ includes(toLowerCase(CodeUnits(student.name)), lowercaseQuery)
            \/ includes(toLowerCase(CodeUnits(student.rollNumber)), lowercaseQuery)
            \/ /\ "email" \in DOMAIN student
               /\ includes(toLowerCase(CodeUnits(student.email)), lowercaseQuery)
    IN  SelectSeq(MapValues(m), hit)

searchStudents(m, query) ==
    LET lowercaseQuery == toLowerCase(CodeUnits(query))
        hit(student) ==
            \/ includes(toLowerCase(CodeUnits(student.name)), lowercaseQuery)
            \/ includes(toLowerCase(CodeUnits(student.rollNumber)), lowercaseQuery)
            \/ /\ "email" \in DOMAIN student
               /\ includes(toLowerCase(CodeUnits(student.email)), lowercaseQuery)
    IN  SelectSeq(MapValues(m), hit)

(***************************************************************************)
(* QR payloads (QRScannerService).  A text is the sequence of its          *)
(* characters.  JSON values: strings, numbers, booleans, null, arrays and  *)
(* objects (entries in insertion order).  The grammar is JSON without      *)
(* signs, fractions, exponents and the escapes \b and \uXXXX, which occur  *)
(* in none of the texts below.                                             *)
(***************************************************************************)
Str(cs) == [t |-> "string", v |-> cs]
Num(n) == [t |-> "number", v |-> n]
Bool(b) == [t |-> "boolean", v |-> b]
JSONNull == [t |-> "null"]
Arr(elems) == [t |-> "array", v |-> elems]
Obj(entries) == [t |-> "object", v |-> entries]
Undefined == [t |-> "undefined"]

Digits == << "0", "1", "2", "3", "4", "5", "6", "7", "8", "9" >>

IsDigit(c) == \E k \in 1..Len(Digits) : Digits[k] = c

DigitValue(c) == (CHOOSE k \in 1..Len(Digits) : Digits[k] = c) - 1

Whitespace == { " ", "\t", "\n", "\r" }

ControlChars == { "\t", "\n", "\r", "\f" }

\* Date.prototype.toISOString of the instant t (milliseconds after the epoch)
toISOString(t) == CodeUnits("1970-01-01T00:00:00.00") \o << Digits[t + 1], "Z" >>

\* variant: the characters are copied between the quotes as they are
JSONQuote_Raw(cs) == << "\"" >> \o cs \o << "\"" >>

RECURSIVE EscapeChars(_)
EscapeChars(cs) ==
    IF cs = << >> THEN << >>
    ELSE LET c == Head(cs)
             e == CASE c = "\"" -> << "\\", "\"" >>
                    [] c = "\\" -> << "\\", "\\" >>
                    [] c = "\n" -> << "\\", "n" >>
                    [] c = "\t" -> << "\\", "t" >>
                    [] c = "\r" -> << "\\", "r" >>
                    [] c = "\f" -> << "\\", "f" >>
                    [] OTHER    -> << c >>
         IN  e \o EscapeChars(Tail(cs))

\* JSON.stringify of a string
JSONQuote(cs) == << "\"" >> \o EscapeChars(cs) \o << "\"" >>

\* JSON.stringify of a number that is a natural number
RECURSIVE NumberToChars(_)
NumberToChars(n) ==
    IF n < 10 THEN << Digits[n + 1] >>
    ELSE NumberToChars(n \div 10) \o << Digits[(n % 10) + 1] >>

\* JSON.stringify of a property value: a string or a number
StringifyValue(value) ==
    IF value.t = "number" THEN NumberToChars(value.v) ELSE JSONQuote(value.v)

\* JSON.stringify of an object whose property values are strings or numbers
RECURSIVE StringifyEntries(_)
StringifyEntries(entries) ==
    IF entries = << >> THEN << >>
    ELSE LET e == Head(entries)
             member == JSONQuote(e.key) \o << ":" >> \o StringifyValue(e.value)
         IN  IF Len(entries) = 1 THEN member
             ELSE member \o << "," >> \o StringifyEntries(Tail(entries))

JSONstringify(obj) == << "{" >> \o StringifyEntries(obj.v) \o << "}" >>

SyntaxError == [ok |-> FALSE]

RECURSIVE SkipWs(_, _)
SkipWs(cs, i) ==
    IF i <= Len(cs) /\ cs[i] \in Whitespace THEN SkipWs(cs, i + 1) ELSE i

\* cs holds the characters of lit from position i on
HasAt(cs, i, lit) ==
    /\ i + Len(lit) - 1 <= Len(cs)
    /\ SubSeq(cs, i, i + Len(lit) - 1) = lit

\* the characters of a string literal, from the character after its opening quote
RECURSIVE ScanString(_, _, _)
ScanString(cs, i, acc) ==
    IF i > Len(cs) THEN SyntaxError
    ELSE IF cs[i] = "\"" THEN [ok |-> TRUE, value |-> acc, next |-> i + 1]
    ELSE IF cs[i] = "\\" THEN
        IF i + 1 > Len(cs) THEN SyntaxError
        ELSE IF cs[i + 1] \in { "\"", "\\", "/" }
             THEN ScanString(cs, i + 2, Append(acc, cs[i + 1]))
        ELSE IF cs[i + 1] = "n" THEN ScanString(cs, i + 2, Append(acc, "\n"))
        ELSE IF cs[i + 1] = "t" THEN ScanString(cs, i + 2, Append(acc, "\t"))
        ELSE IF cs[i + 1] = "r" THEN ScanString(cs, i + 2, Append(acc, "\r"))
        ELSE IF cs[i + 1] = "f" THEN ScanString(cs, i + 2, Append(acc, "\f"))
        ELSE SyntaxError
    ELSE IF cs[i] \in ControlChars THEN SyntaxError
    ELSE ScanString(cs, i + 1, Append(acc, cs[i]))

RECURSIVE ScanDigits(_, _, _)
ScanDigits(cs, i, n) ==
    IF i <= Len(cs) /\ IsDigit(cs[i])
    THEN ScanDigits(cs, i + 1, 10 * n + DigitValue(cs[i]))
    ELSE [ok |-> TRUE, value |-> Num(n), next |-> i]

\* defining a property: a key already present keeps its place
ObjSet(entries, key, value) ==
    IF \E k \in 1..Len(entries) : entries[k].key = key
    THEN [ k \in 1..Len(entries) |->
             IF entries[k].key = key THEN [key |-> key, value |-> value]
             ELSE entries[k] ]
    ELSE Append(entries, [key |-> key, value |-> value])

RECURSIVE ParseValue(_, _)
RECURSIVE ParseMembers(_, _, _)
RECURSIVE ParseElements(_, _, _)

\* the value that starts at position i (white space skipped)
ParseValue(cs, i) ==
    IF i > Len(cs) THEN SyntaxError
    ELSE IF cs[i] = "\"" THEN
        LET r == ScanString(cs, i + 1, << >>) IN
        IF r.ok THEN [ok |-> TRUE, value |-> Str(r.value), next |-> r.next]
        ELSE SyntaxError
    ELSE IF cs[i] = "{" THEN
        LET j == SkipWs(cs, i + 1) IN
        IF j <= Len(cs) /\ cs[j] = "}"
        THEN [ok |-> TRUE, value |-> Obj(<< >>), next |-> j + 1]
        ELSE ParseMembers(cs, j, << >>)
    ELSE IF cs[i] = "[" THEN
        LET j == SkipWs(cs, i + 1) IN
        IF j <= Len(cs) /\ cs[j] = "]"
        THEN [ok |-> TRUE, value |-> Arr(<< >>), next |-> j + 1]
        ELSE ParseElements(cs, j, << >>)
    ELSE IF HasAt(cs, i, << "n", "u", "l", "l" >>)
        THEN [ok |-> TRUE, value |-> JSONNull, next |-> i + 4]
    ELSE IF HasAt(cs, i, << "t", "r", "u", "e" >>)
        THEN [ok |-> TRUE, value |-> Bool(TRUE), next |-> i + 4]
    ELSE IF HasAt(cs, i, << "f", "a", "l", "s", "e" >>)
        THEN [ok |-> TRUE, value |-> Bool(FALSE), next |-> i + 5]
    ELSE IF cs[i] = "0" THEN [ok |-> TRUE, value |-> Num(0), next |-> i + 1]
    ELSE IF IsDigit(cs[i]) THEN ScanDigits(cs, i, 0)
    ELSE SyntaxError

\* the members of an object from position i on, after those in acc
ParseMembers(cs, i, acc) ==
    IF i > Len(cs) \/ cs[i] # "\"" THEN SyntaxError
    ELSE LET k == ScanString(cs, i + 1, << >>) IN
    IF ~k.ok THEN SyntaxError
    ELSE LET c == SkipWs(cs, k.next) IN
    IF c > Len(cs) \/ cs[c] # ":" THEN SyntaxError
    ELSE LET v == ParseValue(cs, SkipWs(cs, c + 1)) IN
    IF ~v.ok THEN SyntaxError
    ELSE LET e == SkipWs(cs, v.next)
             members == ObjSet(acc, k.value, v.value) IN
    IF e > Len(cs) THEN SyntaxError
    ELSE IF cs[e] = "}" THEN [ok |-> TRUE, value |-> Obj(members), next |-> e + 1]
    ELSE IF cs[e] = "," THEN ParseMembers(cs, SkipWs(cs, e + 1), members)
    ELSE SyntaxError

\* the elements of an array from position i on, after those in acc
ParseElements(cs, i, acc) ==
    LET v == ParseValue(cs, i) IN
    IF ~v.ok THEN SyntaxError
    ELSE LET e == SkipWs(cs, v.next)
             elems == Append(acc, v.value) IN
    IF e > Len(cs) THEN SyntaxError
    ELSE IF cs[e] = "]" THEN [ok |-> TRUE, value |-> Arr(elems), next |-> e + 1]
    ELSE IF cs[e] = "," THEN ParseElements(cs, SkipWs(cs, e + 1), elems)
    ELSE SyntaxError

\* JSON.parse: the value, or [ok |-> FALSE] for a SyntaxError
JSONparse(cs) ==
    LET r == ParseValue(cs, SkipWs(cs, 1)) IN
    IF r.ok /\ SkipWs(cs, r.next) = Len(cs) + 1
    THEN [ok |-> TRUE, value |-> r.value]
    ELSE SyntaxError

\* value.key: a TypeError on null, undefined where there is no such property
GetProperty(value, key) ==
    IF value.t = "null" THEN [ok |-> FALSE]
    ELSE IF value.t = "object" /\ \E k \in 1..Len(value.v) : value.v[k].key = CodeUnits(key)
    THEN [ok |-> TRUE,
          value |-> value.v[CHOOSE k \in 1..Len(value.v) : value.v[k].key = CodeUnits(key)].value]
    ELSE [ok |-> TRUE, value |-> Undefined]

\* x === "..." for a string literal
StrictEqualsString(x, lit) == x.t = "string" /\ x.v = CodeUnits(lit)

generateStudentQR(studentId, studentName, t) ==
    LET qrData == Obj(<< [key |-> CodeUnits("type"), value |-> Str(CodeUnits("student_id"))],
                         [key |-> CodeUnits("student_id"), value |-> Str(studentId)],
                         [key |-> CodeUnits("student_name"), value |-> Str(studentName)],
                         [key |-> CodeUnits("timestamp"), value |-> Str(toISOString(t))] >>)
    IN  JSONstringify(qrData)

\* the text the registration form hands to QRCode.toDataURL
generateStudentQRCode(rollNumber, t) ==
    LET qrData == Obj(<< [key |-> CodeUnits("type"), value |-> Str(CodeUnits("student_id"))],
                         [key |-> CodeUnits("rollNumber"), value |-> Str(rollNumber)],
                         [key |-> CodeUnits("timestamp"), value |-> Num(t)] >>)
    IN  JSONstringify(qrData)

\* raised: an exception leaves the method; every exception of the try block
\* is caught and answered with null
parseQRData(qrData) ==
    LET parsed == JSONparse(qrData) IN
    IF ~parsed.ok THEN [raised |-> FALSE, ret |-> Null]
    ELSE LET type == GetProperty(parsed.value, "type") IN
    IF ~type.ok THEN [raised |-> FALSE, ret |-> Null]
    ELSE IF \/ StrictEqualsString(type.value, "student_id")
            \/ StrictEqualsString(type.value, "attendance_session")
    THEN [raised |-> FALSE, ret |-> parsed.value]
    ELSE [raised |-> FALSE, ret |-> Null]

(***************************************************************************)
(* Object identity.  The Map holds references to Student objects and the   *)
(* array of getAllStudents holds the same references.  An element of a     *)
(* returned array is either the object the Map still holds under a key     *)
(* (held) or an object the Map no longer holds, with its own field values. *)
(***************************************************************************)
\* the array Array.from(this.students.values()) builds
arrayFromValues(m) ==
    [ i \in 1..Len(m) |-> [held |-> TRUE, key |-> m[i].key, value |-> m[i].value] ]

\* the field values of the object an array element refers to
Deref(m, e) == IF e.held THEN MapGet(m, e.key) ELSE e.value

\* keys that this.students.set(id, newStudent) binds to a new object
addStudentRebinds(t) == {t}

\* variant: the stored object is assigned to in place
updateStudentRebinds_InPlace(m, id) == {}

\* keys that this.students.set(id, updatedStudent) binds to a new object:
\* updatedStudent is a fresh object literal
updateStudentRebinds(m, id) == IF MapHas(m, id) THEN {id} ELSE {}

\* keys that this.students.delete(id) unbinds
deleteStudentRebinds(id) == {id}

\* the returned array after the Map entries of keys are bound anew or removed:
\* its elements keep the objects they referred to
Retain(snap, m, keys) ==
    [ snap EXCEPT !.items =
        [ i \in 1..Len(snap.items) |->
            IF snap.items[i].held /\ snap.items[i].key \in keys
            THEN [held |-> FALSE, key |-> snap.items[i].key,
                  value |-> MapGet(m, snap.items[i].key)]
            ELSE snap.items[i] ] ]

(***************************************************************************)
(* Face recognition                                                        *)
(***************************************************************************)
\* variant: only the image url is handed to updateStudent
updateStudentFaceData_UrlOnly(m, id, faceImageUrl, faceDescriptor, t) ==
    IF ~MapHas(m, id) THEN [students |-> m, ret |-> FALSE]
    ELSE [students |->
            updateStudent(m, id, [faceImageUrl |-> faceImageUrl], t).students,
          ret |-> TRUE]

updateStudentFaceData(m, id, faceImageUrl, faceDescriptor, t) ==
    IF ~MapHas(m, id) THEN [students |-> m, ret |-> FALSE]
    ELSE [students |->
            updateStudent(m, id, [faceImageUrl |-> faceImageUrl,
                                  faceDescriptor |-> faceDescriptor], t).students,
          ret |-> TRUE]

RECURSIVE SumSquares(_, _, _)
SumSquares(a, b, i) ==
    IF i > Len(a) THEN 0
    ELSE (a[i] - b[i]) * (a[i] - b[i]) + SumSquares(a, b, i + 1)

\* variant: no length check, the sum runs over the common prefix
RECURSIVE SumSquaresTo(_, _, _, _)
SumSquaresTo(a, b, i, n) ==
    IF i > n THEN 0
    ELSE (a[i] - b[i]) * (a[i] - b[i]) + SumSquaresTo(a, b, i + 1, n)

calculateEuclideanDistance_Prefix(a, b) ==
    Sqrt(SumSquaresTo(a, b, 1, IF Len(a) < Len(b) THEN Len(a) ELSE Len(b)))

calculateEuclideanDistance(a, b) ==
    IF Len(a) # Len(b) THEN Infinity ELSE Sqrt(SumSquares(a, b, 1))

\* variant: the candidate is not compared with the best distance so far
RECURSIVE findLoop_KeepLast(_, _, _, _, _, _)
findLoop_KeepLast(m, i, descriptor, threshold, bestMatch, bestDistance) ==
    IF i > Len(m) THEN bestMatch
    ELSE LET student == m[i].value IN
         IF "faceDescriptor" \notin DOMAIN student
         THEN findLoop_KeepLast(m, i + 1, descriptor, threshold, bestMatch,
                                bestDistance)
         ELSE LET distance ==
                      IF Len(descriptor) # Len(student.faceDescriptor) THEN Infinity
                      ELSE Sqrt(SumSquares(descriptor, student.faceDescriptor, 1))
              IN  IF Less(distance, threshold)
                  THEN findLoop_KeepLast(m, i + 1, descriptor, threshold, student,
                                         distance)
                  ELSE findLoop_KeepLast(m, i + 1, descriptor, threshold, bestMatch,
                                         bestDistance)

\* variant: a record without a descriptor is compared as the empty vector
RECURSIVE findLoop_NoSkip(_, _, _, _, _, _)
findLoop_NoSkip(m, i, descriptor, threshold, bestMatch, bestDistance) ==
    IF i > Len(m) THEN bestMatch
    ELSE LET student == m[i].value
             stored == IF "faceDescriptor" \in DOMAIN student
                       THEN student.faceDescriptor ELSE <<>>
             distance ==
                 IF Len(descriptor) # Len(stored) THEN Infinity
                 ELSE Sqrt(SumSquares(descriptor, stored, 1))
         IN  IF Less(distance, threshold) /\ Less(distance, bestDistance)
             THEN findLoop_NoSkip(m, i + 1, descriptor, threshold, student, distance)
             ELSE findLoop_NoSkip(m, i + 1, descriptor, threshold, bestMatch,
                                  bestDistance)

\* variant: a candidate as close as the best so far replaces it
RECURSIVE findLoop_LastTie(_, _, _, _, _, _)
findLoop_LastTie(m, i, descriptor, threshold, bestMatch, bestDistance) ==
    IF i > Len(m) THEN bestMatch
    ELSE LET student == m[i].value IN
         IF "faceDescriptor" \notin DOMAIN student
         THEN findLoop_LastTie(m, i + 1, descriptor, threshold, bestMatch,
                               bestDistance)
         ELSE LET distance ==
                      calculateEuclideanDistance(descriptor, student.faceDescriptor)
              IN  IF Less(distance, threshold) /\ ~Less(bestDistance, distance)
                  THEN findLoop_LastTie(m, i + 1, descriptor, threshold, student,
                                        distance)
                  ELSE findLoop_LastTie(m, i + 1, descriptor, threshold, bestMatch,
                                        bestDistance)

\* the body of the for loop, from entry i on, with the loop's two locals
RECURSIVE findLoop(_, _, _, _, _, _)
findLoop(m, i, descriptor, threshold, bestMatch, bestDistance) ==
    IF i > Len(m) THEN bestMatch
    ELSE LET student == m[i].value IN
         IF "faceDescriptor" \notin DOMAIN student
         THEN findLoop(m, i + 1, descriptor, threshold, bestMatch, bestDistance)
         ELSE LET distance ==
                      calculateEuclideanDistance(descriptor, student.faceDescriptor)
              IN  IF Less(distance, threshold) /\ Less(distance, bestDistance)
                  THEN findLoop(m, i + 1, descriptor, threshold, student, distance)
                  ELSE findLoop(m, i + 1, descriptor, threshold, bestMatch,
                                bestDistance)

findStudentByFaceDescriptor(m, descriptor, threshold) ==
    findLoop(m, 1, descriptor, threshold, Null, Infinity)

(***************************************************************************)
(* Attendance                                                              *)
(***************************************************************************)
markAttendance(studentId, method, confidence, t) ==
    confidence @@
    [id |-> t, studentId |-> studentId, date |-> DateOf(t), time |-> TimeOf(t),
     method |-> method, status |-> "present"]

\* variant: the date filter is dropped
getAttendanceByDate_All(att, date) == att

getAttendanceByDate(att, date) == SelectSeq(att, LAMBDA record : record.date = date)

getStudentAttendance(att, studentId) ==
    SelectSeq(att, LAMBDA record : record.studentId = studentId)

\* (presentStudents / totalStudents) * 100 as an exact fraction
Percentage(presentStudents, totalStudents) ==
    [num |-> presentStudents * 100, den |-> totalStudents]

getAttendanceStats(m, att, date, t) ==
    LET targetDate == IF "date" \in DOMAIN date THEN date.date ELSE DateOf(t)
        todayAttendance == getAttendanceByDate(att, targetDate)
        totalStudents == MapSize(m)
        presentStudents == Len(todayAttendance)
    IN  [total |-> totalStudents,
         present |-> presentStudents,
         absent |-> totalStudents - presentStudents,
         percentage |-> IF totalStudents > 0
                        THEN Percentage(presentStudents, totalStudents)
                        ELSE [num |-> 0, den |-> 1]]

(***************************************************************************)
(* The calls a client of studentDB can make, one action per method         *)
(***************************************************************************)
\* the effect of one addStudent call on the store
AddStudentStep(student) ==
    LET r == addStudent(students, student, now) IN
    /\ MapSize(r.students) <= MaxStudents
    /\ students' = r.students
    /\ call' = [op |-> "addStudent", student |-> student]
    /\ ret' = r.ret
    /\ UNCHANGED <<attendance, now>>
    /\ snapshot' = Retain(snapshot, students, addStudentRebinds(now))
    /\ UNCHANGED uiVars

DoAddStudent(student) ==
    /\ calls < MaxCalls
    /\ calls' = calls + 1
    /\ AddStudentStep(student)

DoUpdateStudent(id, updates) ==
    LET r == updateStudent(students, id, updates, now) IN
    /\ students' = r.students
    /\ call' = [op |-> "updateStudent", id |-> id, updates |-> updates]
    /\ ret' = r.ret
    /\ calls < MaxCalls
    /\ calls' = calls + 1
    /\ UNCHANGED <<attendance, now>>
    /\ snapshot' = Retain(snapshot, students, updateStudentRebinds(students, id))
    /\ UNCHANGED uiVars

\* variant: the events of the deleted student are removed with it
DoDeleteStudent_Cascade(id) ==
    LET r == deleteStudent(students, id) IN
    /\ students' = r.students
    /\ attendance' = SelectSeq(attendance, LAMBDA record : record.studentId # id)
    /\ call' = [op |-> "deleteStudent", id |-> id]
    /\ ret' = r.ret
    /\ calls < MaxCalls
    /\ calls' = calls + 1
    /\ UNCHANGED now
    /\ snapshot' = Retain(snapshot, students, deleteStudentRebinds(id))
    /\ UNCHANGED uiVars

\* the effect of one deleteStudent call on the store
DeleteStudentStep(id) ==
    LET r == deleteStudent(students, id) IN
    /\ students' = r.students
    /\ call' = [op |-> "deleteStudent", id |-> id]
    /\ ret' = r.ret
    /\ UNCHANGED <<attendance, now>>
    /\ snapshot' = Retain(snapshot, students, deleteStudentRebinds(id))
    /\ UNCHANGED uiVars

DoDeleteStudent(id) ==
    /\ calls < MaxCalls
    /\ calls' = calls + 1
    /\ DeleteStudentStep(id)

DoUpdateStudentFaceData(id, faceDescriptor) ==
    LET r == updateStudentFaceData(students, id, "data:image", faceDescriptor, now) IN
    /\ students' = r.students
    /\ call' = [op |-> "updateStudentFaceData", id |-> id,
                faceDescriptor |-> faceDescriptor]
    /\ ret' = r.ret
    /\ calls < MaxCalls
    /\ calls' = calls + 1
    /\ UNCHANGED <<attendance, now>>
    /\ snapshot' = Retain(snapshot, students, updateStudentRebinds(students, id))
    /\ UNCHANGED uiVars

\* variant: a second event for the same student and date is not appended
DoMarkAttendance_Dedup(studentId, method, confidence) ==
    LET record == markAttendance(studentId, method, confidence, now)
        seen == \E i \in 1..Len(attendance) :
                    /\ attendance[i].studentId = studentId
                    /\ attendance[i].date = record.date
    IN
    /\ Len(attendance) < MaxAttendance
    /\ attendance' = IF seen THEN attendance ELSE Append(attendance, record)
    /\ call' = [op |-> "markAttendance", studentId |-> studentId,
                method |-> method, confidence |-> confidence]
    /\ ret' = record
    /\ calls < MaxCalls
    /\ calls' = calls + 1
    /\ UNCHANGED <<students, now>>
    /\ UNCHANGED snapshot
    /\ UNCHANGED uiVars

\* the effect of one markAttendance call on the store
MarkAttendanceStep(studentId, method, confidence) ==
    LET record == markAttendance(studentId, method, confidence, now) IN
    /\ Len(attendance) < MaxAttendance
    /\ attendance' = Append(attendance, record)
    /\ call' = [op |-> "markAttendance", studentId |-> studentId,
                method |-> method, confidence |-> confidence]
    /\ ret' = record
    /\ UNCHANGED <<students, now>>
    /\ UNCHANGED snapshot
    /\ UNCHANGED uiVars

DoMarkAttendance(studentId, method, confidence) ==
    /\ calls < MaxCalls
    /\ calls' = calls + 1
    /\ MarkAttendanceStep(studentId, method, confidence)

Tick ==
    /\ now < MaxNow
    /\ now' = now + 1
    /\ UNCHANGED <<students, attendance, call, ret, calls, snapshot>>
    /\ UNCHANGED uiVars

Next ==
    \/ \E s \in NewStudents : DoAddStudent(s)
    \/ \E id \in Ids, u \in Updates : DoUpdateStudent(id, u)
    \/ \E id \in Ids : DoDeleteStudent(id)
    \/ \E id \in Ids, d \in Descriptors : DoUpdateStudentFaceData(id, d)
    \/ \E id \in Ids, k \in Marks : DoMarkAttendance(id, k.method, k.confidence)
    \/ Tick

Spec == Init /\ [][Next]_vars

\* the first array getAllStudents returns is kept by its caller
DoGetAllStudents ==
    /\ ~snapshot.taken
    /\ snapshot' = [taken |-> TRUE, items |-> arrayFromValues(students)]
    /\ call' = [op |-> "getAllStudents"]
    /\ ret' = getAllStudents(students)
    /\ UNCHANGED <<students, attendance, now, calls>>
    /\ UNCHANGED uiVars

NextSnapshot ==
    \/ DoGetAllStudents
    \/ \E s \in NewStudents : DoAddStudent(s)
    \/ \E id \in Ids, u \in Updates : DoUpdateStudent(id, u)
    \/ \E id \in Ids : DoDeleteStudent(id)
    \/ \E id \in Ids, d \in Descriptors : DoUpdateStudentFaceData(id, d)
    \/ Tick

SpecSnapshot == Init /\ [][NextSnapshot]_vars

DoGenerateStudentQR(studentId, studentName) ==
    /\ call' = [op |-> "generateStudentQR", studentId |-> studentId,
                studentName |-> studentName]
    /\ ret' = generateStudentQR(studentId, studentName, now)
    /\ UNCHANGED <<students, attendance, now, calls, snapshot>>
    /\ UNCHANGED uiVars

DoParseQRData(qrData) ==
    /\ call' = [op |-> "parseQRData", qrData |-> qrData]
    /\ ret' = parseQRData(qrData)
    /\ UNCHANGED <<students, attendance, now, calls, snapshot>>
    /\ UNCHANGED uiVars

\* a scanned text is one of the texts above or the payload just generated
NextQR ==
    \/ \E id \in QRIds, name \in QRNames : DoGenerateStudentQR(id, name)
    \/ \E text \in QRInvalidTexts \cup QRUnknownTypeTexts \cup QRKnownTypeTexts :
           DoParseQRData(text)
    \/ call.op = "generateStudentQR" /\ DoParseQRData(ret)
    \/ Tick

SpecQR == Init /\ [][NextQR]_vars

DoGenerateStudentQRCode(rollNumber) ==
    /\ call' = [op |-> "generateStudentQRCode", rollNumber |-> rollNumber]
    /\ ret' = generateStudentQRCode(rollNumber, now)
    /\ UNCHANGED <<students, attendance, now, calls, snapshot>>
    /\ UNCHANGED uiVars

\* the payloads of both generators, each scanned after it is produced
NextQRPayloads ==
    \/ \E id \in QRIds, name \in QRNames : DoGenerateStudentQR(id, name)
    \/ \E rollNumber \in QRIds : DoGenerateStudentQRCode(rollNumber)
    \/ call.op \in { "generateStudentQR", "generateStudentQRCode" } /\ DoParseQRData(ret)
    \/ Tick

SpecQRPayloads == Init /\ [][NextQRPayloads]_vars

(***************************************************************************)
(* The registration form (StudentRegistration).  Each handler runs to its  *)
(* first await in one step; what follows an await is a step of its own.    *)
(***************************************************************************)
\* the errors validateForm finds: no key when the form may be submitted
validateForm(formData, m) ==
    LET required(field, message) ==
            IF trim(CodeUnits(formData[field])) = << >>
            THEN [k \in {field} |-> message]
            ELSE << >>
        duplicate ==
            IF formData.rollNumber # "" /\ getStudentByRollNumber(m, formData.rollNumber) # Null
            THEN [rollNumber |-> "Roll number already exists"]
            ELSE << >>
    IN  duplicate
        @@ required("name", "Name is required")
        @@ required("rollNumber", "Roll number is required")
        @@ required("class", "Class/Year is required")
        @@ required("section", "Section/Department is required")

\* the record handleSubmit hands to addStudent
submittedStudent(formData, faceImage) ==
    (IF faceImage # Null THEN [faceImageUrl |-> faceImage.url] ELSE << >>)
    @@ [name |-> formData.name, rollNumber |-> formData.rollNumber,
        class |-> formData.class, section |-> formData.section]

\* variant: the submit goes ahead whatever validateForm finds
DoHandleSubmit_NoReturn(f, formData, faceImage) ==
    LET r == addStudent(students, submittedStudent(formData, faceImage), now) IN
    /\ calls < MaxFormCalls
    /\ calls' = calls + 1
    /\ forms[f].pc = "idle"
    /\ ~forms[f].isProcessing
    /\ MapSize(r.students) <= MaxStudents
    /\ students' = r.students
    /\ snapshot' = Retain(snapshot, students, addStudentRebinds(now))
    /\ forms' = [forms EXCEPT ![f] =
                   [isProcessing |-> TRUE, pc |-> "generateStudentQRCode",
                    newStudent |-> r.ret, image |-> faceImage]]
    /\ call' = [op |-> "handleSubmit", form |-> f, formData |-> formData,
                errors |-> validateForm(formData, students)]
    /\ UNCHANGED <<attendance, now, ret>>
    /\ UNCHANGED <<pendingFaces, camera, enroll, detect, scan>>

\* handleSubmit up to its await: validateForm, then addStudent in the same turn
DoHandleSubmit(f, formData, faceImage) ==
    LET newErrors == validateForm(formData, students)
        r == addStudent(students, submittedStudent(formData, faceImage), now)
    IN  /\ calls < MaxFormCalls
        /\ calls' = calls + 1
        /\ forms[f].pc = "idle"
        /\ ~forms[f].isProcessing
        /\ IF DOMAIN newErrors # {}
           THEN UNCHANGED <<students, snapshot, forms>>
           ELSE /\ MapSize(r.students) <= MaxStudents
                /\ students' = r.students
                /\ snapshot' = Retain(snapshot, students, addStudentRebinds(now))
                /\ forms' = [forms EXCEPT ![f] =
                               [isProcessing |-> TRUE, pc |-> "generateStudentQRCode",
                                newStudent |-> r.ret, image |-> faceImage]]
        /\ call' = [op |-> "handleSubmit", form |-> f, formData |-> formData,
                    errors |-> newErrors]
        /\ UNCHANGED <<attendance, now, ret>>
        /\ UNCHANGED <<pendingFaces, camera, enroll, detect, scan>>

\* handleSubmit after generateStudentQRCode has settled: the image, if any,
\* starts to load, and the finally block ends the processing
GenerateStudentQRCodeSettles(f) ==
    LET form == forms[f] IN
    /\ form.pc = "generateStudentQRCode"
    /\ pendingFaces' =
           IF form.image # Null
           THEN pendingFaces \cup { [id |-> form.newStudent.id, image |-> form.image.url,
                                    stage |-> "onload", deleted |-> FALSE] }
           ELSE pendingFaces
    /\ forms' = [forms EXCEPT ![f] = [isProcessing |-> FALSE, pc |-> "idle"]]
    /\ UNCHANGED dbVars
    /\ UNCHANGED <<camera, enroll, detect, scan>>

\* img.onload up to its await of extractFaceDescriptor
ImageOnload(p) ==
    /\ p \in pendingFaces
    /\ p.stage = "onload"
    /\ pendingFaces' = (pendingFaces \ {p}) \cup { [p EXCEPT !.stage = "extractFaceDescriptor"] }
    /\ UNCHANGED dbVars
    /\ UNCHANGED <<forms, camera, enroll, detect, scan>>

\* img.onload after extractFaceDescriptor has resolved to descriptor
ExtractFaceDescriptorSettles(p, descriptor) ==
    LET r == updateStudentFaceData(students, p.id, p.image, descriptor, now) IN
    /\ p \in pendingFaces
    /\ p.stage = "extractFaceDescriptor"
    /\ pendingFaces' = pendingFaces \ {p}
    /\ IF descriptor # Null
       THEN /\ students' = r.students
            /\ snapshot' = Retain(snapshot, students, updateStudentRebinds(students, p.id))
            /\ call' = [op |-> "updateStudentFaceData", id |-> p.id,
                        faceDescriptor |-> descriptor]
            /\ ret' = r.ret
       ELSE UNCHANGED <<students, snapshot, call, ret>>
    /\ UNCHANGED <<attendance, now, calls>>
    /\ UNCHANGED <<forms, camera, enroll, detect, scan>>

\* deleteStudent called from elsewhere while descriptors are awaited; deleted
\* notes on a pending attach that its record was deleted
FormsDeleteStudent(id) ==
    LET r == deleteStudent(students, id) IN
    /\ calls < MaxFormCalls
    /\ calls' = calls + 1
    /\ students' = r.students
    /\ snapshot' = Retain(snapshot, students, deleteStudentRebinds(id))
    /\ pendingFaces' = { IF p.id = id /\ MapHas(students, id)
                         THEN [p EXCEPT !.deleted = TRUE] ELSE p : p \in pendingFaces }
    /\ UNCHANGED <<attendance, now, call, ret>>
    /\ UNCHANGED <<forms, camera, enroll, detect, scan>>

NextForms ==
    \/ \E f \in Forms, formData \in FormData, faceImage \in FaceImages :
           DoHandleSubmit(f, formData, faceImage)
    \/ \E f \in Forms : GenerateStudentQRCodeSettles(f)
    \/ \E p \in pendingFaces : ImageOnload(p)
    \/ \E p \in pendingFaces, d \in ExtractedDescriptors : ExtractFaceDescriptorSettles(p, d)
    \/ \E id \in Ids : FormsDeleteStudent(id)
    \/ Tick

SpecForms == Init /\ [][NextForms]_vars

(***************************************************************************)
(* The camera of the registration form.  The user clicks a button that is  *)
(* rendered; a pending promise or event settles.                           *)
(***************************************************************************)
\* videoRef.current: the <video> element is rendered only when showCamera
videoRef(cam) == IF cam.showCamera THEN cam.video ELSE Null

\* the buttons rendered: Take Photo when the camera view is hidden, Cancel in it
CameraButtons(cam) == IF cam.showCamera THEN { "stopCamera" } ELSE { "startCamera" }

RemoveAt(s, i) == SubSeq(s, 1, i - 1) \o SubSeq(s, i + 1, Len(s))

\* startCamera up to its await of getUserMedia
startCamera(cam, mediaDevices) ==
    IF ~mediaDevices
    THEN [cam EXCEPT !.error = "Camera not available in this environment"]
    ELSE [cam EXCEPT !.pending = Append(@, [kind |-> "getUserMedia"])]

\* the error message startCamera chooses in its catch block
cameraErrorMessage(name) ==
    CASE name = "NotAllowedError" -> "Camera access denied"
      [] name = "NotFoundError" -> "No camera found"
      [] name = "NotReadableError" -> "Camera is already in use"
      [] OTHER -> "Camera error: Unable to access camera"

\* startCamera after getUserMedia has settled
getUserMediaSettles(cam, outcome) ==
    IF outcome.ok
    THEN LET mediaStream == Len(cam.streams) + 1
             acquired == [cam EXCEPT !.streams = Append(@, [live |-> TRUE])]
         IN  IF videoRef(cam) # Null
             THEN [acquired EXCEPT
                     !.video = [srcObject |-> [stream |-> mediaStream],
                                onloadedmetadata |-> [stream |-> mediaStream]],
                     !.pending = Append(@, [kind |-> "loadedmetadata"])]
             ELSE acquired
    ELSE [cam EXCEPT !.error = cameraErrorMessage(outcome.name)]

\* videoRef.current.onloadedmetadata, or onerror when the stream fails to load
videoEvent(cam, outcome) ==
    IF ~outcome.ok THEN [cam EXCEPT !.error = "Failed to load video stream"]
    ELSE IF videoRef(cam) # Null /\ cam.video.onloadedmetadata # Null
    THEN [cam EXCEPT !.pending = Append(@, [kind |-> "play",
                                            stream |-> cam.video.onloadedmetadata.stream])]
    ELSE cam

\* the then and catch callbacks of play()
playSettles(cam, mediaStream, outcome) ==
    IF outcome.ok
    THEN [cam EXCEPT !.stream = [index |-> mediaStream], !.showCamera = TRUE, !.error = ""]
    ELSE [cam EXCEPT !.error = "Failed to start video playback"]

stopCamera(cam) ==
    [cam EXCEPT !.streams = IF cam.stream # Null
                            THEN [@ EXCEPT ![cam.stream.index] = [live |-> FALSE]]
                            ELSE @,
                !.stream = Null,
                !.showCamera = FALSE]

\* the user clicks a rendered button; mediaDevices says whether
\* navigator.mediaDevices exists
DoCameraClick(button, mediaDevices) ==
    /\ button \in CameraButtons(camera)
    /\ calls < MaxStartCamera
    /\ calls' = calls + 1
    /\ camera' = IF button = "startCamera"
                 THEN startCamera(camera, mediaDevices)
                 ELSE stopCamera(camera)
    /\ UNCHANGED <<students, attendance, now, call, ret, snapshot>>
    /\ UNCHANGED <<forms, pendingFaces, enroll, detect, scan>>

\* the i-th pending promise or event of the camera settles
CameraSettles(i, outcome) ==
    LET task == camera.pending[i]
        rest == [camera EXCEPT !.pending = RemoveAt(@, i)]
    IN  /\ i \in 1..Len(camera.pending)
        /\ camera' = CASE task.kind = "getUserMedia" -> getUserMediaSettles(rest, outcome)
                       [] task.kind = "loadedmetadata" -> videoEvent(rest, outcome)
                       [] task.kind = "play" -> playSettles(rest, task.stream, outcome)
        /\ UNCHANGED dbVars
        /\ UNCHANGED <<forms, pendingFaces, enroll, detect, scan>>

NextCamera ==
    \/ \E button \in { "startCamera", "stopCamera" }, mediaDevices \in BOOLEAN :
           DoCameraClick(button, mediaDevices)
    \/ \E i \in 1..MaxStartCamera, outcome \in CameraOutcomes : CameraSettles(i, outcome)
    \/ Tick

SpecCamera == Init /\ [][NextCamera]_vars

\* every pending promise or event settles
SpecCameraFair ==
    /\ SpecCamera
    /\ WF_vars(\E i \in 1..MaxStartCamera, outcome \in CameraOutcomes : CameraSettles(i, outcome))

(***************************************************************************)
(* Face enrollment: enrollStudent of the component and addStudent of       *)
(* FaceRecognitionService                                                  *)
(***************************************************************************)
\* Enroll Student is disabled without the fields and while processing
EnrollButtonEnabled(enr, fields) ==
    /\ fields.capturedImage # Null
    /\ fields.studentId # ""
    /\ fields.studentName # ""
    /\ enr.enrollmentStatus # "processing"

\* enrollStudent up to its await
enrollStudent(enr, fields) ==
    IF fields.capturedImage = Null \/ fields.studentId = "" \/ fields.studentName = ""
    THEN [enr EXCEPT !.enrollmentMessage = "Please fill in all fields and capture an image",
                     !.enrollmentStatus = "error"]
    ELSE [enr EXCEPT !.enrollmentStatus = "processing",
                     !.enrollmentMessage = "Adding student to face recognition system...",
                     !.pending = Append(@, [kind |-> "addStudent"])]

\* FaceRecognitionService.addStudent: what its promise resolves to
serviceAddStudent(outcome) ==
    IF outcome.ok THEN outcome.body
    ELSE [success |-> FALSE, message |-> "Failed to add student"]

\* variant: any result that is not null counts as a success
enrollStudentSettles_AnyResult(enr, result) ==
    IF result = Null
    THEN [enr EXCEPT !.enrollmentStatus = "error",
                     !.enrollmentMessage = "Failed to enroll student"]
    ELSE [enr EXCEPT !.enrollmentStatus = "success",
                     !.enrollmentMessage = IF "message" \in DOMAIN result
                                           THEN result.message ELSE ""]

\* enrollStudent after the await: result.success on null raises, which the
\* catch block answers
enrollStudentSettles(enr, result) ==
    IF result = Null
    THEN [enr EXCEPT !.enrollmentStatus = "error",
                     !.enrollmentMessage = "Failed to enroll student"]
    ELSE IF "success" \in DOMAIN result /\ result.success
    THEN [enr EXCEPT !.enrollmentStatus = "success",
                     !.enrollmentMessage = result.message]
    ELSE [enr EXCEPT !.enrollmentStatus = "error",
                     !.enrollmentMessage = IF "message" \in DOMAIN result
                                           THEN result.message ELSE ""]

resetForm(enr) == [enr EXCEPT !.enrollmentStatus = "idle", !.enrollmentMessage = ""]

DoEnrollStudent(fields) ==
    /\ EnrollButtonEnabled(enroll, fields)
    /\ calls < MaxEnrollCalls
    /\ calls' = calls + 1
    /\ enroll' = enrollStudent(enroll, fields)
    /\ UNCHANGED <<students, attendance, now, call, ret, snapshot>>
    /\ UNCHANGED <<forms, pendingFaces, camera, detect, scan>>

DoResetForm ==
    /\ calls < MaxEnrollCalls
    /\ calls' = calls + 1
    /\ enroll' = resetForm(enroll)
    /\ UNCHANGED <<students, attendance, now, call, ret, snapshot>>
    /\ UNCHANGED <<forms, pendingFaces, camera, detect, scan>>

\* the oldest addStudent call in flight settles and enrollStudent goes on
EnrollSettles(outcome) ==
    /\ enroll.pending # << >>
    /\ enroll' = [enrollStudentSettles(enroll, serviceAddStudent(outcome))
                    EXCEPT !.pending = Tail(@),
                           !.reply = IF outcome.ok THEN outcome.body
                                     ELSE [failed |-> TRUE]]
    /\ UNCHANGED dbVars
    /\ UNCHANGED <<forms, pendingFaces, camera, detect, scan>>

NextEnroll ==
    \/ \E fields \in EnrollFields : DoEnrollStudent(fields)
    \/ DoResetForm
    \/ \E outcome \in FetchOutcomes : EnrollSettles(outcome)
    \/ Tick

SpecEnroll == Init /\ [][NextEnroll]_vars

\* every call of the backend settles
SpecEnrollFair ==
    /\ SpecEnroll
    /\ WF_vars(\E outcome \in FetchOutcomes : EnrollSettles(outcome))

(***************************************************************************)
(* Requests to the backends: scanQRCode of QRScannerService and            *)
(* detectFaces of FaceRecognitionService.  A call is at its await of fetch *)
(* ("fetch"), at its await of response.json() ("json"), or its promise is  *)
(* settled ("fulfilled", "rejected").  response and body are what fetch    *)
(* and response.json() gave the call, via the return statement it took.    *)
(***************************************************************************)
NoBody == [ok |-> FALSE]

Fulfilled(response, body, value, via) ==
    [pc |-> "fulfilled", response |-> response, body |-> body, value |-> value, via |-> via]

Rejected(response, body) ==
    [pc |-> "rejected", response |-> response, body |-> body, value |-> Null, via |-> "throw"]

\* getMockQRResult; k is Math.floor(Math.random() * mockResults.length)
getMockQRResult(k, t) ==
    LET mockResults ==
            << [success |-> TRUE, type |-> "student_id", student_id |-> "STU001",
                student_name |-> "John Doe",
                message |-> "Student John Doe identified successfully"],
               [success |-> TRUE, type |-> "attendance_session", session_id |-> "session_123",
                session_name |-> "Morning Lecture", class_id |-> "CS101",
                expires_at |-> [toISOString |-> t + 24 * 60 * 60 * 1000],
                message |-> "Session Morning Lecture identified successfully"] >>
    IN  [success |-> TRUE, qr_codes_found |-> 1, results |-> << mockResults[k + 1] >>]

\* scanQRCode up to its await of fetch
scanQRCode(frame, k, t) ==
    IF frame = "throws"
    THEN Fulfilled([kind |-> "none"], NoBody, getMockQRResult(k, t), "catch")
    ELSE [pc |-> "fetch"]

\* variant: the body of a response is read whatever its status
scanFetchSettles_NoStatusCheck(response, k, t) ==
    IF response.kind = "rejects"
    THEN Fulfilled(response, NoBody, getMockQRResult(k, t), "catch")
    ELSE [pc |-> "json", response |-> response]

\* scanQRCode after fetch has settled
scanFetchSettles(response, k, t) ==
    IF response.kind = "rejects" \/ ~response.ok
    THEN Fulfilled(response, NoBody, getMockQRResult(k, t), "catch")
    ELSE [pc |-> "json", response |-> response]

\* scanQRCode after response.json() has settled
scanJsonSettles(sc, body, k, t) ==
    IF ~body.ok
    THEN Fulfilled(sc.response, body, getMockQRResult(k, t), "catch")
    ELSE Fulfilled(sc.response, body, body.value, "return")

DoScanQRCode(frame, k) ==
    /\ scan.pc \in { "idle", "fulfilled", "rejected" }
    /\ calls < MaxBackendCalls
    /\ calls' = calls + 1
    /\ scan' = scanQRCode(frame, k, now)
    /\ UNCHANGED <<students, attendance, now, call, ret, snapshot>>
    /\ UNCHANGED <<forms, pendingFaces, camera, enroll, detect>>

ScanFetchSettles(response, k) ==
    /\ scan.pc = "fetch"
    /\ scan' = scanFetchSettles(response, k, now)
    /\ UNCHANGED dbVars
    /\ UNCHANGED <<forms, pendingFaces, camera, enroll, detect>>

ScanJsonSettles(body, k) ==
    /\ scan.pc = "json"
    /\ scan' = scanJsonSettles(scan, body, k, now)
    /\ UNCHANGED dbVars
    /\ UNCHANGED <<forms, pendingFaces, camera, enroll, detect>>

NextScan ==
    \/ \E frame \in FrameOutcomes, k \in 0..1 : DoScanQRCode(frame, k)
    \/ \E response \in Responses, k \in 0..1 : ScanFetchSettles(response, k)
    \/ \E body \in Bodies(QRScanResults), k \in 0..1 : ScanJsonSettles(body, k)
    \/ Tick

SpecScan == Init /\ [][NextScan]_vars

\* getMockFaces: draws[i] is the Math.random() > 0.5 of face i; the random
\* box, confidence and names of a mock face are left out
getMockFaces(draws, descriptor) ==
    [ i \in 1..Len(draws) |-> [recognized |-> draws[i], descriptor |-> descriptor] ]

\* the FaceDetection detectFaces makes of an entry of result.results
toFaceDetection(face, descriptor) ==
    [box |-> [x |-> face.face_location.left,
              y |-> face.face_location.top,
              width |-> face.face_location.right - face.face_location.left,
              height |-> face.face_location.bottom - face.face_location.top],
     confidence |-> face.confidence,
     studentId |-> face.student_id,
     studentName |-> face.student_name,
     recognized |-> face.recognized,
     descriptor |-> descriptor]

\* detectFaces up to its await of fetch
detectFaces(frame, draws, descriptor) ==
    IF frame = "throws"
    THEN Fulfilled([kind |-> "none"], NoBody, getMockFaces(draws, descriptor), "catch")
    ELSE [pc |-> "fetch"]

\* variant: the catch block throws the error again
detectFetchSettles_Rethrow(response, draws, descriptor) ==
    IF response.kind = "rejects" \/ ~response.ok
    THEN Rejected(response, NoBody)
    ELSE [pc |-> "json", response |-> response]

\* detectFaces after fetch has settled
detectFetchSettles(response, draws, descriptor) ==
    IF response.kind = "rejects" \/ ~response.ok
    THEN Fulfilled(response, NoBody, getMockFaces(draws, descriptor), "catch")
    ELSE [pc |-> "json", response |-> response]

\* detectFaces after response.json() has settled: result.success on null and
\* result.results.map without results raise a TypeError inside the try block
detectJsonSettles(dt, body, draws, descriptor) ==
    IF ~body.ok \/ body.value = Null
    THEN Fulfilled(dt.response, body, getMockFaces(draws, descriptor), "catch")
    ELSE IF ~("success" \in DOMAIN body.value /\ body.value.success)
    THEN Fulfilled(dt.response, body, << >>, "return []")
    ELSE IF "results" \notin DOMAIN body.value
    THEN Fulfilled(dt.response, body, getMockFaces(draws, descriptor), "catch")
    ELSE Fulfilled(dt.response, body,
                   [ i \in 1..Len(body.value.results) |->
                       toFaceDetection(body.value.results[i], descriptor) ],
                   "return faces")

DoDetectFaces(frame, draws, descriptor) ==
    /\ detect.pc \in { "idle", "fulfilled", "rejected" }
    /\ calls < MaxBackendCalls
    /\ calls' = calls + 1
    /\ detect' = detectFaces(frame, draws, descriptor)
    /\ UNCHANGED <<students, attendance, now, call, ret, snapshot>>
    /\ UNCHANGED <<forms, pendingFaces, camera, enroll, scan>>

DetectFetchSettles(response, draws, descriptor) ==
    /\ detect.pc = "fetch"
    /\ detect' = detectFetchSettles(response, draws, descriptor)
    /\ UNCHANGED dbVars
    /\ UNCHANGED <<forms, pendingFaces, camera, enroll, scan>>

DetectJsonSettles(body, draws, descriptor) ==
    /\ detect.pc = "json"
    /\ detect' = detectJsonSettles(detect, body, draws, descriptor)
    /\ UNCHANGED dbVars
    /\ UNCHANGED <<forms, pendingFaces, camera, enroll, scan>>

NextDetect ==
    \/ \E frame \in FrameOutcomes, draws \in MockDraws, d \in RandomDescriptors :
           DoDetectFaces(frame, draws, d)
    \/ \E response \in Responses, draws \in MockDraws, d \in RandomDescriptors :
           DetectFetchSettles(response, draws, d)
    \/ \E body \in Bodies(FaceRecognitionResults), draws \in MockDraws, d \in RandomDescriptors :
           DetectJsonSettles(body, draws, d)
    \/ Tick

SpecDetect == Init /\ [][NextDetect]_vars

\* addStudent, deleteStudent and markAttendance alone, up to MaxStatsCalls calls
StatsAddStudent(student) ==
    /\ calls < MaxStatsCalls
    /\ calls' = calls + 1
    /\ AddStudentStep(student)

StatsDeleteStudent(id) ==
    /\ calls < MaxStatsCalls
    /\ calls' = calls + 1
    /\ DeleteStudentStep(id)

StatsMarkAttendance(studentId) ==
    /\ calls < MaxStatsCalls
    /\ calls' = calls + 1
    /\ MarkAttendanceStep(studentId, "qr", <<>>)

NextStats ==
    \/ \E s \in NewStudents : StatsAddStudent(s)
    \/ \E id \in Ids : StatsDeleteStudent(id)
    \/ \E id \in Ids : StatsMarkAttendance(id)
    \/ Tick

SpecStats == Init /\ [][NextStats]_vars

\* addStudent and updateStudent called with empty names and roll numbers too
NextRequired ==
    \/ \E s \in NewStudents \cup BlankStudents : DoAddStudent(s)
    \/ \E id \in Ids, u \in Updates \cup BlankUpdates : DoUpdateStudent(id, u)
    \/ Tick

SpecRequired == Init /\ [][NextRequired]_vars

\* the student management calls alone, for the properties of searchStudents
NextStudents ==
    \/ \E s \in NewStudents : DoAddStudent(s)
    \/ \E id \in Ids, u \in Updates : DoUpdateStudent(id, u)
    \/ \E id \in Ids : DoDeleteStudent(id)
    \/ Tick

SpecStudents == Init /\ [][NextStudents]_vars

(***************************************************************************)
(* Vocabulary of the properties                                            *)
(***************************************************************************)
\* every id a record of the model can be stored under, and "0"
AllIds == 0..MaxNow

\* the step is a call of a StudentDatabase method (not a clock tick)
CallStep == calls' = calls + 1

\* the error outcome the specification names for a conflicting insert
DuplicateKey == [error |-> "DuplicateKey"]

RollNumbersUnique(m) ==
    \A i, j \in 1..Len(m) : m[i].value.rollNumber = m[j].value.rollNumber => i = j

\* positions of the records that carry a face descriptor
Enrolled(m) == { i \in 1..Len(m) : "faceDescriptor" \in DOMAIN m[i].value }

\* Euclidean distance of two vectors of one length, stated over the index set
EuclideanDistance(q, v) ==
    LET f[n \in 0..Len(q)] ==
            IF n = 0 THEN 0 ELSE f[n - 1] + (q[n] - v[n]) ^ 2
    IN  Sqrt(f[Len(q)])

(***************************************************************************)
(* C1: an addStudent whose rollNumber equals that of a live record fails   *)
(* with DuplicateKey and leaves the student set and the attendance log     *)
(* unchanged (so that adds alone never make two live records share a roll  *)
(* number).  The code performs no such check.                              *)
(***************************************************************************)
C1_DuplicateAddRejected ==
    [][ ( /\ CallStep
          /\ call'.op = "addStudent"
          /\ getStudentByRollNumber(students, call'.student.rollNumber) # Null )
        => ( /\ ret' = DuplicateKey
             /\ students' = students
             /\ attendance' = attendance ) ]_vars

(***************************************************************************)
(* C2: roll-number uniqueness is preserved by every operation; stated here *)
(* for the steps of updateStudent, updateStudentFaceData and deleteStudent *)
(* (the addStudent steps are the subject of C1): from a state with unique  *)
(* roll numbers such a step leads to a state with unique roll numbers.     *)
(***************************************************************************)
C2_RollNumberUniquePreserved ==
    [][ ( /\ CallStep
          /\ call'.op \in {"updateStudent", "updateStudentFaceData", "deleteStudent"}
          /\ RollNumbersUnique(students) )
        => RollNumbersUnique(students') ]_vars

(***************************************************************************)
(* C3: the attendance log holds at most one event for any (studentId,      *)
(* date) pair; stated here for the events of live students (events that    *)
(* name an id not in the store are the subject of C11).                    *)
(***************************************************************************)
C3_OneEventPerStudentPerDay ==
    \A i, j \in 1..Len(attendance) :
        ( /\ MapHas(students, attendance[i].studentId)
          /\ attendance[i].studentId = attendance[j].studentId
          /\ attendance[i].date = attendance[j].date ) => i = j

(***************************************************************************)
(* C4: findStudentByFaceDescriptor returns a record whose descriptor has   *)
(* the smallest Euclidean distance to the query among the enrolled records *)
(* of the query's length, provided that distance is strictly below the     *)
(* threshold, and returns null exactly when no such descriptor is strictly *)
(* below the threshold.                                                    *)
(***************************************************************************)
C4_BestMatch ==
    \A q \in Queries, th \in Thresholds :
        LET r == findStudentByFaceDescriptor(students, q, th)
            cand == { i \in Enrolled(students) :
                        Len(students[i].value.faceDescriptor) = Len(q) }
            d(i) == EuclideanDistance(q, students[i].value.faceDescriptor)
        IN  /\ (r = Null) <=> (\A i \in cand : ~Less(d(i), th))
            /\ r # Null =>
                 \E i \in cand : /\ students[i].value = r
                                 /\ Less(d(i), th)
                                 /\ \A j \in cand : ~Less(d(j), d(i))

\* descriptors at distances 0.3 and 0.5 from the query <<0, 0>>, threshold 0.6:
\* the 0.3 record wins; from <<11, 0>> both are at 0.8 or more: no match
C4_Witness ==
    \E i, j \in Enrolled(students) :
        /\ students[i].value.faceDescriptor = <<3, 0>>
        /\ students[j].value.faceDescriptor = <<3, 4>>
        /\ findStudentByFaceDescriptor(students, <<0, 0>>, Sqrt(36)) = students[i].value
        /\ findStudentByFaceDescriptor(students, <<11, 0>>, Sqrt(36)) = Null

(***************************************************************************)
(* C5: the record returned never has a descriptor whose length differs     *)
(* from the query's, for any threshold; when no stored descriptor has the  *)
(* query's length the result is null.                                      *)
(***************************************************************************)
C5_LengthMismatchNeverMatches ==
    \A q \in Queries, th \in Thresholds :
        LET r == findStudentByFaceDescriptor(students, q, th) IN
        /\ r # Null => Len(r.faceDescriptor) = Len(q)
        /\ (\A i \in Enrolled(students) :
                Len(students[i].value.faceDescriptor) # Len(q)) => r = Null

\* the only stored descriptor <<3>> is a prefix of the query <<3, 0>>: no match,
\* even with an infinite threshold
C5_Witness ==
    /\ Enrolled(students) # {}
    /\ \A i \in Enrolled(students) : students[i].value.faceDescriptor = <<3>>
    /\ findStudentByFaceDescriptor(students, <<3, 0>>, Infinity) = Null

(***************************************************************************)
(* C6: whatever the query and the threshold, a record returned by          *)
(* findStudentByFaceDescriptor is a live record with a faceDescriptor.     *)
(***************************************************************************)
C6_MatchHasDescriptor ==
    \A q \in Queries, th \in Thresholds :
        LET r == findStudentByFaceDescriptor(students, q, th) IN
        r # Null => /\ "faceDescriptor" \in DOMAIN r
                    /\ \E i \in 1..Len(students) : students[i].value = r

\* a store with an enrolled and a not enrolled record, and a query that matches
C6_Witness ==
    /\ \E i \in 1..Len(students) : i \notin Enrolled(students)
    /\ \E q \in Queries, th \in Thresholds :
           LET r == findStudentByFaceDescriptor(students, q, th) IN
           r # Null /\ "faceDescriptor" \in DOMAIN r

(***************************************************************************)
(* C7: getAttendanceStats(date) returns total = number of live students,   *)
(* present = number of events dated the target date (the given date, else  *)
(* today), absent = total - present and percentage = present/total*100,    *)
(* which is 0 when total = 0.                                              *)
(***************************************************************************)
C7_AttendanceStats ==
    \A d \in Dates :
        LET s == getAttendanceStats(students, attendance, d, now)
            target == IF "date" \in DOMAIN d THEN d.date ELSE DateOf(now)
            total == Cardinality(MapKeys(students))
            present == Cardinality({ i \in 1..Len(attendance) :
                                       attendance[i].date = target })
        IN  /\ s.total = total
            /\ s.present = present
            /\ s.absent = total - present
            /\ s.percentage.den # 0
            /\ total = 0 => s.percentage.num = 0
            /\ total > 0 => s.percentage.num * total = present * 100 * s.percentage.den

\* two students, two events of which one is dated today: 1 present, 1 absent, 50 %
C7_Witness ==
    /\ Len(attendance) = 2
    /\ LET s == getAttendanceStats(students, attendance, <<>>, now) IN
       /\ s.total = 2 /\ s.present = 1 /\ s.absent = 1
       /\ s.percentage.num = 50 * s.percentage.den

(***************************************************************************)
(* C8: deleteStudent(id) on an id not in the store returns false and       *)
(* leaves students and attendance unchanged; on an id in the store it      *)
(* returns true and getStudent(id) returns null afterwards; an id that is  *)
(* absent becomes present again only by an addStudent call.                *)
(***************************************************************************)
C8_DeleteStudent ==
    [][ /\ (CallStep /\ call'.op = "deleteStudent") =>
              IF getStudent(students, call'.id) = Null
              THEN /\ ret' = FALSE
                   /\ students' = students
                   /\ attendance' = attendance
              ELSE /\ ret' = TRUE
                   /\ getStudent(students', call'.id) = Null
        /\ \A id \in AllIds :
              (getStudent(students, id) = Null /\ getStudent(students', id) # Null)
                  => (CallStep /\ call'.op = "addStudent") ]_vars

\* a known id has just been deleted and is absent
C8_Witness ==
    /\ call.op = "deleteStudent"
    /\ ret = TRUE
    /\ getStudent(students, call.id) = Null

(***************************************************************************)
(* C9: the id of a record is immutable: every record stored under key k    *)
(* has id = k, and getStudent(k) returns a record whose id is k.           *)
(***************************************************************************)
C9_IdImmutable ==
    /\ \A i \in 1..Len(students) : students[i].value.id = students[i].key
    /\ \A k \in AllIds : getStudent(students, k) # Null => getStudent(students, k).id = k

(***************************************************************************)
(* C10: every successful addStudent (one whose roll number no live record  *)
(* holds, in a store whose roll numbers are unique) assigns an id that no  *)
(* record in the store has, so it adds exactly one live student and        *)
(* overwrites no existing record, also when two adds happen at the same    *)
(* clock instant.                                                          *)
(***************************************************************************)
C10_AddAssignsFreshId ==
    [][ ( /\ CallStep
          /\ call'.op = "addStudent"
          /\ RollNumbersUnique(students)
          /\ getStudentByRollNumber(students, call'.student.rollNumber) = Null ) =>
            /\ ~MapHas(students, ret'.id)
            /\ MapSize(students') = MapSize(students) + 1
            /\ \A k \in MapKeys(students) :
                   getStudent(students', k) = getStudent(students, k) ]_vars

(***************************************************************************)
(* C11: every attendance event references a studentId that was the id of a *)
(* live record when the event was created: markAttendance with an id not   *)
(* in the store creates no event.  The code does not look the id up.       *)
(***************************************************************************)
C11_NoEventForUnknownStudent ==
    [][ ( /\ CallStep
          /\ call'.op = "markAttendance"
          /\ ~MapHas(students, call'.studentId) )
        => attendance' = attendance ]_vars

(***************************************************************************)
(* C12: updateStudent on an id not in the store reports not-found (the     *)
(* null result) and leaves the student set and the attendance log          *)
(* unchanged: no record is created for that id.                            *)
(***************************************************************************)
C12_UpdateUnknownId ==
    [][ ( /\ CallStep
          /\ call'.op = "updateStudent"
          /\ ~MapHas(students, call'.id) )
        => ( /\ ret' = Null
             /\ students' = students
             /\ attendance' = attendance
             /\ getStudent(students', call'.id) = Null ) ]_vars

\* an update of a deleted (or never issued) id has just returned null
C12_Witness ==
    /\ call.op = "updateStudent"
    /\ ret = Null
    /\ ~MapHas(students, call.id)
    /\ MapSize(students) >= 1

(***************************************************************************)
(* C13: updateStudent on a known id overwrites only the supplied fields    *)
(* and refreshes updatedAt: the other fields of the record keep their      *)
(* values, every other record is unchanged and the record keeps its        *)
(* position in insertion order.                                            *)
(***************************************************************************)
C13_UpdateOverwritesOnlySupplied ==
    [][ ( /\ CallStep
          /\ call'.op = "updateStudent"
          /\ MapHas(students, call'.id) )
        => LET u == call'.updates
               i == MapIndex(students, call'.id)
           IN  /\ Len(students') = Len(students)
               /\ \A j \in 1..Len(students) :
                      /\ students'[j].key = students[j].key
                      /\ j # i => students'[j] = students[j]
               /\ LET old == students[i].value
                      new == students'[i].value
                  IN  /\ DOMAIN new = DOMAIN old \cup DOMAIN u \cup {"updatedAt"}
                      /\ \A f \in DOMAIN u \ {"updatedAt"} : new[f] = u[f]
                      /\ new.updatedAt = now
                      /\ \A f \in DOMAIN old \ (DOMAIN u \cup {"updatedAt"}) :
                             new[f] = old[f]
                      /\ ret' = new
               /\ attendance' = attendance ]_vars

\* the first record got a new name at a later instant: it is still first, its
\* roll number and createdAt are the old ones and updatedAt is the new instant
C13_Witness ==
    /\ call = [op |-> "updateStudent", id |-> 1, updates |-> [name |-> "Ann"]]
    /\ Len(students) >= 2
    /\ students[1].key = 1
    /\ students[1].value = ret
    /\ ret.name = "Ann" /\ ret.rollNumber = "CS001"
    /\ ret.updatedAt = now /\ ret.createdAt < now

(***************************************************************************)
(* C14: updateStudentFaceData on an id not in the store returns false and  *)
(* changes nothing; on a known id it returns true and the record carries   *)
(* the supplied vector, so that a following match on that vector finds a   *)
(* record with it, and a match on the replaced vector (when no other       *)
(* record has it) finds none.                                              *)
(***************************************************************************)
C14_SetFaceDescriptor ==
    [][ (CallStep /\ call'.op = "updateStudentFaceData") =>
          LET id == call'.id
              d == call'.faceDescriptor
          IN  IF ~MapHas(students, id)
              THEN /\ ret' = FALSE
                   /\ students' = students
                   /\ attendance' = attendance
              ELSE LET old == getStudent(students, id)
                       new == getStudent(students', id)
                       hit == findStudentByFaceDescriptor(students', d, Sqrt(1))
                   IN  /\ ret' = TRUE
                       /\ "faceDescriptor" \in DOMAIN new
                       /\ new.faceDescriptor = d
                       /\ hit # Null
                       /\ hit.faceDescriptor = d
                       /\ ( /\ "faceDescriptor" \in DOMAIN old
                            /\ old.faceDescriptor # d
                            /\ \A j \in Enrolled(students') :
                                   students'[j].value.faceDescriptor
                                       # old.faceDescriptor )
                          => findStudentByFaceDescriptor(
                                 students', old.faceDescriptor, Sqrt(1)) = Null ]_vars

\* a descriptor has just been attached to a known record and a match on it
\* returns that record, although another record is enrolled as well
C14_Witness ==
    /\ call.op = "updateStudentFaceData"
    /\ ret = TRUE
    /\ Cardinality(Enrolled(students)) = 2
    /\ findStudentByFaceDescriptor(students, call.faceDescriptor, Sqrt(1))
           = getStudent(students, call.id)

C16_AttendanceAppendOnly ==
    [][ /\ Len(attendance') >= Len(attendance)
        /\ SubSeq(attendance', 1, Len(attendance)) = attendance
        /\ ( /\ CallStep
             /\ call'.op \in {"addStudent", "updateStudent",
                              "updateStudentFaceData", "deleteStudent"} )
           => /\ attendance' = attendance
              /\ \A id \in AllIds :
                     getStudentAttendance(attendance', id)
                         = getStudentAttendance(attendance, id)
              /\ \A d \in Dates :
                     "date" \in DOMAIN d =>
                         getAttendanceByDate(attendance', d.date)
                             = getAttendanceByDate(attendance, d.date) ]_vars

\* a student with an event has just been deleted; the event is still returned
C16_Witness ==
    /\ call.op = "deleteStudent"
    /\ ret = TRUE
    /\ ~MapHas(students, call.id)
    /\ Len(getStudentAttendance(attendance, call.id)) = 1
    /\ Len(getAttendanceByDate(attendance, DateOf(now))) = 1

(***************************************************************************)
(* C20: among several enrolled descriptors at the same smallest distance   *)
(* below the threshold, findStudentByFaceDescriptor returns the record     *)
(* that comes first in insertion order; updateStudent and                  *)
(* updateStudentFaceData keep every record at its place in that order.     *)
(***************************************************************************)
C20_TieFirstInserted ==
    /\ [](\A q \in Queries, th \in Thresholds :
            LET r == findStudentByFaceDescriptor(students, q, th)
                d(i) == calculateEuclideanDistance(
                            q, students[i].value.faceDescriptor)
                best == { i \in Enrolled(students) :
                            /\ Less(d(i), th)
                            /\ \A j \in Enrolled(students) : ~Less(d(j), d(i)) }
            IN  best # {} =>
                  \E i \in best : /\ r = students[i].value
                                  /\ \A j \in best : i <= j)
    /\ [][ ( /\ CallStep
             /\ call'.op \in {"updateStudent", "updateStudentFaceData"} )
           => /\ Len(students') = Len(students)
              /\ \A j \in 1..Len(students) :
                     students'[j].key = students[j].key ]_vars

\* records 1 and 2 are both at distance 0.2 from <<3, 2>>; record 2 was enrolled
\* first and record 1 last, and the match is record 1, the first inserted
C20_Witness ==
    /\ call = [op |-> "updateStudentFaceData", id |-> 1, faceDescriptor |-> <<3, 0>>]
    /\ Len(students) = 2
    /\ students[1].key = 1 /\ students[2].key = 2
    /\ students[1].value.updatedAt > students[2].value.updatedAt
    /\ 2 \in Enrolled(students)
    /\ students[2].value.faceDescriptor = <<3, 4>>
    /\ findStudentByFaceDescriptor(students, <<3, 2>>, Sqrt(36)) = students[1].value

(***************************************************************************)
(* C18: searchStudents(query) returns exactly the live records for which   *)
(* the lower-cased query is a substring of the lower-cased name, roll      *)
(* number or email (a record without email is matched on name and roll     *)
(* number only), in insertion order; the empty sequence when none match.   *)
(***************************************************************************)
\* n occurs in h at some offset
IsSubstring(n, h) ==
    \E k \in 0..Len(h) :
        /\ k + Len(n) <= Len(h)
        /\ \A i \in 1..Len(n) : h[k + i] = n[i]

SearchMatches(student, query) ==
    LET q == toLowerCase(CodeUnits(query)) IN
    \/ IsSubstring(q, toLowerCase(CodeUnits(student.name)))
    \/ IsSubstring(q, toLowerCase(CodeUnits(student.rollNumber)))
    \/ /\ "email" \in DOMAIN student
       /\ IsSubstring(q, toLowerCase(CodeUnits(student.email)))

C18_SearchStudents ==
    \A query \in SearchQueries :
        LET res == searchStudents(students, query)
            idx == { i \in 1..Len(students) :
                       SearchMatches(students[i].value, query) }
        IN  /\ Len(res) = Cardinality(idx)
            /\ \A k \in 1..Len(res) :
                   \E i \in idx : /\ Cardinality({ j \in idx : j < i }) = k - 1
                                  /\ res[k] = students[i].value

\* three records, the last without email: "ANN" finds it alone, "SCHOOL" the
\* two with an email, "cs00" all three in insertion order, "xyz" none
C18_Witness ==
    /\ Len(students) = 3
    /\ "email" \notin DOMAIN students[3].value
    /\ searchStudents(students, "ANN") = <<students[3].value>>
    /\ searchStudents(students, "SCHOOL") = <<students[1].value, students[2].value>>
    /\ searchStudents(students, "cs00") = MapValues(students)
    /\ searchStudents(students, "xyz") = <<>>

(***************************************************************************)
(* C17: getAllStudents returns all live records in insertion order, and    *)
(* the returned sequence is a snapshot: later addStudent, updateStudent,   *)
(* updateStudentFaceData and deleteStudent calls change neither its        *)
(* length, its order, nor the field values of its elements.                *)
(***************************************************************************)
C17_ReturnsLiveInOrder ==
    call'.op = "getAllStudents" /\ call.op # "getAllStudents"
        => /\ Len(ret') = Len(students)
           /\ \A i \in 1..Len(students) : ret'[i] = students[i].value

C17_SnapshotKept ==
    snapshot.taken
        => /\ snapshot'.taken
           /\ Len(snapshot'.items) = Len(snapshot.items)
           /\ \A i \in 1..Len(snapshot.items) :
                  Deref(students', snapshot'.items[i]) = Deref(students, snapshot.items[i])

C17_GetAllStudentsSnapshot == [][C17_ReturnsLiveInOrder /\ C17_SnapshotKept]_vars

\* a snapshot of the two sample records after which record 1 was updated and
\* record 2 deleted: the snapshot still shows both as they were
C17_Witness ==
    /\ snapshot.taken
    /\ Len(snapshot.items) = 2
    /\ Len(students) = 1
    /\ students[1].value.name = "Ann"
    /\ Deref(students, snapshot.items[1]).name = "John Doe"
    /\ Deref(students, snapshot.items[2]).name = "Jane Smith"

(***************************************************************************)
(* C19: QR payload round trip: for every studentId and studentName,        *)
(* parseQRData(generateStudentQR(studentId, studentName)) returns a record *)
(* with type "student_id" and the same student_id, student_name and        *)
(* timestamp; parseQRData of a payload whose type is neither "student_id"  *)
(* nor "attendance_session", or of text that is not valid JSON, returns    *)
(* null without raising.                                                   *)
(***************************************************************************)
\* the record has the string x under key
HasField(record, key, x) ==
    /\ "t" \in DOMAIN record
    /\ record.t = "object"
    /\ \E k \in 1..Len(record.v) :
          /\ record.v[k].key = CodeUnits(key)
          /\ record.v[k].value = [t |-> "string", v |-> x]

C19_QRRoundTrip ==
    call.op = "parseQRData"
        => /\ \A id \in QRIds, name \in QRNames, t \in AllIds :
                  call.qrData = generateStudentQR(id, name, t)
                      => /\ ~ret.raised
                         /\ HasField(ret.ret, "type", CodeUnits("student_id"))
                         /\ HasField(ret.ret, "student_id", id)
                         /\ HasField(ret.ret, "student_name", name)
                         /\ HasField(ret.ret, "timestamp", toISOString(t))
                         /\ Len(ret.ret.v) = 4
           /\ call.qrData \in QRInvalidTexts \cup QRUnknownTypeTexts
                  => ret = [raised |-> FALSE, ret |-> Null]

\* the payload generated for a name with a quote in it has just been parsed
C19_Witness ==
    /\ call.op = "parseQRData"
    /\ call.qrData = generateStudentQR(<< "\"", "}" >>, << "A", "\"", "b" >>, now)
    /\ HasField(ret.ret, "student_name", << "A", "\"", "b" >>)

(***************************************************************************)
(* C21: in every reachable state an attendance event carries a confidence  *)
(* value only if its method is face: no event with method qr has a         *)
(* confidence.  markAttendance stores the confidence it is given.          *)
(***************************************************************************)
C21_ConfidenceOnlyForFace ==
    \A i \in 1..Len(attendance) :
        "confidence" \in DOMAIN attendance[i] => attendance[i].method = "face"

(***************************************************************************)
(* C22: every live student record has a non-empty name and a non-empty     *)
(* roll number: addStudent with an empty name or roll number adds no       *)
(* record and no update makes either empty.  The store checks neither.     *)
(***************************************************************************)
C22_NameAndRollNonEmpty ==
    \A i \in 1..Len(students) :
        /\ students[i].value.name # ""
        /\ students[i].value.rollNumber # ""

(***************************************************************************)
(* C26: in every state reachable by addStudent, deleteStudent and          *)
(* markAttendance, getAttendanceStats returns present <= total,            *)
(* absent >= 0 and percentage <= 100.  Events outlive their students and   *)
(* are not limited to one per student.                                     *)
(***************************************************************************)
C26_StatsWithinRange ==
    \A d \in Dates :
        LET s == getAttendanceStats(students, attendance, d, now) IN
        /\ s.present <= s.total
        /\ s.absent >= 0
        /\ s.percentage.num <= 100 * s.percentage.den

(***************************************************************************)
(* C24: for any interleaving of submissions from registration forms that   *)
(* share studentDB, a submit whose roll number equals that of a live       *)
(* record adds no student: validateForm and addStudent run in one turn, so *)
(* two submits with the same roll number never both add a record.          *)
(***************************************************************************)
RollNumberLive(m, rollNumber) ==
    \E i \in 1..Len(m) : m[i].value.rollNumber = rollNumber

C24_SubmitOfLiveRollAddsNothing ==
    /\ [](RollNumbersUnique(students))
    /\ [][ \A f \in Forms, formData \in FormData, faceImage \in FaceImages :
             ( /\ DoHandleSubmit(f, formData, faceImage)
               /\ RollNumberLive(students, formData.rollNumber) )
                 => students' = students ]_vars

\* form 1 awaits its QR code after adding CS003; the submit of form 2 with
\* CS003 has just been refused
C24_Witness ==
    /\ forms[1].pc = "generateStudentQRCode"
    /\ forms[1].newStudent.rollNumber = "CS003"
    /\ call.op = "handleSubmit"
    /\ call.form = 2
    /\ call.formData.rollNumber = "CS003"
    /\ "rollNumber" \in DOMAIN call.errors
    /\ Cardinality({ i \in 1..Len(students) : students[i].value.rollNumber = "CS003" }) = 1

(***************************************************************************)
(* C25: if a student is deleted after the registration submit but before   *)
(* the face-descriptor extraction completes, the late                      *)
(* updateStudentFaceData call returns false and leaves the store           *)
(* unchanged.  The id of the deleted record can have been issued again.    *)
(***************************************************************************)
C25_LateAttachAfterDelete ==
    [][ \A p \in pendingFaces, d \in ExtractedDescriptors :
          ( /\ p.deleted
            /\ d # Null
            /\ ExtractFaceDescriptorSettles(p, d) )
              => /\ ret' = FALSE
                 /\ students' = students ]_vars

(***************************************************************************)
(* C27: in the registration form, whenever getUserMedia succeeds, the      *)
(* acquired stream is eventually either stored in component state with the *)
(* camera view shown or a camera error is set.  The <video> element exists *)
(* only in the camera view, so startCamera finds videoRef.current null and *)
(* drops the stream it acquired.                                           *)
(***************************************************************************)
C27_AcquiredStreamHeldOrReported ==
    \A k \in 1..MaxStartCamera :
        (k <= Len(camera.streams))
            ~> ( \/ camera.stream = [index |-> k] /\ camera.showCamera
                 \/ camera.error # "" )

(***************************************************************************)
(* C28: in the face-enrollment component, once enrollStudent has set       *)
(* enrollmentStatus to "processing", the status eventually becomes         *)
(* "success" or "error" whenever the backend call settles; it becomes      *)
(* "success" only when the backend reply has success = true; it never      *)
(* stays "processing" after the call has settled.                          *)
(***************************************************************************)
C28_ProcessingEnds ==
    /\ (enroll.enrollmentStatus = "processing")
           ~> (enroll.enrollmentStatus \in { "success", "error" })
    /\ [](enroll.enrollmentStatus = "success"
             => enroll.reply = [success |-> TRUE, message |-> "Student added"])
    /\ [](enroll.enrollmentStatus = "processing" => enroll.pending # << >>)
    /\ [][ \A outcome \in FetchOutcomes :
             EnrollSettles(outcome)
                 => enroll'.enrollmentStatus =
                        IF outcome.ok /\ outcome.body = [success |-> TRUE, message |-> "Student added"]
                        THEN "success" ELSE "error" ]_vars

\* a call that the backend answered with a body without success has ended in
\* "error", with one more call still in flight
C28_Witness ==
    /\ enroll.enrollmentStatus = "error"
    /\ enroll.reply = [error |-> "Internal Server Error"]
    /\ Len(enroll.pending) = 1

(***************************************************************************)
(* C30: every student QR payload the application produces                  *)
(* (QRScannerService.generateStudentQR and the registration form's         *)
(* generateStudentQRCode) is accepted by parseQRData, and every record     *)
(* parseQRData returns with type "student_id" carries the student_id and   *)
(* student_name fields of StudentQRData.                                   *)
(***************************************************************************)
HasStringField(value, key) ==
    /\ GetProperty(value, key).ok
    /\ GetProperty(value, key).value.t = "string"

C30_StudentPayloadsCarryFields ==
    call.op = "parseQRData"
        => /\ ret.ret # Null
           /\ StrictEqualsString(GetProperty(ret.ret, "type").value, "student_id")
                => /\ HasStringField(ret.ret, "student_id")
                   /\ HasStringField(ret.ret, "student_name")

(***************************************************************************)
(* C29: scanQRCode never rejects: when the request to the QR backend fails *)
(* or returns a non-OK status it resolves to a fallback result with        *)
(* success = true, qr_codes_found = 1 and exactly one entry whose type is  *)
(* student_id or attendance_session; when the backend answers OK it        *)
(* resolves to the backend's result unchanged.                             *)
(***************************************************************************)
IsFallbackQRResult(value) ==
    /\ value # Null
    /\ DOMAIN value = { "success", "qr_codes_found", "results" }
    /\ value.success = TRUE
    /\ value.qr_codes_found = 1
    /\ Len(value.results) = 1
    /\ value.results[1].type \in { "student_id", "attendance_session" }

C29_ScanQRCodeNeverRejects ==
    /\ scan.pc # "rejected"
    /\ scan.pc = "fulfilled"
         => /\ (scan.response.kind = "rejects" \/ (scan.response.kind = "response" /\ ~scan.response.ok))
                  => IsFallbackQRResult(scan.value)
            /\ (scan.response.kind = "response" /\ scan.response.ok /\ scan.body.ok)
                  => scan.value = scan.body.value

\* a scan whose request came back with status 500 has resolved to the
\* fallback session entry
C29_Witness ==
    /\ scan.pc = "fulfilled"
    /\ scan.response = [kind |-> "response", ok |-> FALSE, status |-> 500]
    /\ scan.value.results[1].type = "attendance_session"

(***************************************************************************)
(* C23: detectFaces never rejects: when the recognition backend answers    *)
(* with success = false it resolves to an empty list, and when the request *)
(* fails or returns a non-OK HTTP status it resolves to the fallback       *)
(* (mock) detections instead of propagating the error.                     *)
(***************************************************************************)
MockFaceLists == { getMockFaces(draws, d) : draws \in MockDraws, d \in RandomDescriptors }

C23_DetectFacesNeverRejects ==
    /\ detect.pc # "rejected"
    /\ detect.pc = "fulfilled"
         => /\ ( /\ detect.body.ok
                 /\ detect.body.value # Null
                 /\ "success" \in DOMAIN detect.body.value
                 /\ detect.body.value.success = FALSE )
                  => detect.value = << >> /\ detect.via = "return []"
            /\ (detect.response.kind = "rejects"
                \/ (detect.response.kind = "response" /\ ~detect.response.ok))
                  => detect.via = "catch" /\ detect.value \in MockFaceLists

\* a detection that the backend answered with success = false and one entry
\* has resolved to the empty list
C23_Witness ==
    /\ detect.pc = "fulfilled"
    /\ detect.body = [ok |-> TRUE,
                      value |-> [success |-> FALSE, faces_detected |-> 1,
                                 results |-> << RecognizedFace >>]]
    /\ detect.value = << >>

====
